---- MODULE Spec2Model ----
(***************************************************************************)
(* Venue search: the client-side filter engine (utils/search) and the      *)
(* venue store (store/venueStore) that re-runs it on every filter change.  *)
(*                                                                         *)
(* Strings are sequences of UTF-16 code units, so that normalize, split    *)
(* and includes are computed the way the code computes them.               *)
(***************************************************************************)
EXTENDS Integers, Sequences, FiniteSets, TLC

VARIABLES hotels, usageRecords, filter, results, loading, mounted, pending,
          selectedHotelId, comparisonRooms, showComparison, viewMode,
          sharedDefault, searchBar, gate, db

vars == <<hotels, usageRecords, filter, results, loading, mounted, pending,
          selectedHotelId, comparisonRooms, showComparison, viewMode,
          sharedDefault, searchBar, gate, db>>

\* the fields of the store that belong to the selection, the comparison
\* tray and the view
selection == <<selectedHotelId, comparisonRooms, showComparison, viewMode>>
\* what lives outside the store module: the search bar, the password gate
\* and the database
outside == <<searchBar, gate, db>>

(***************************************************************************)
(* Bounds of the model.                                                    *)
(***************************************************************************)
\* at most MaxActive filter criteria differ from the default at once.
MaxActive == 2
\* at most MaxLoads calls of loadHotels are in flight at once.
MaxLoads == 2
\* at most MaxTimers timeouts of the search bar are pending at once.
MaxTimers == 2

(***************************************************************************)
(* Values.                                                                 *)
(***************************************************************************)
\* undefined / null of an optional number
Absent == 0 - 1
\* undefined / null of an optional string
NoText == <<Absent>>
\* null of a tri-state flag
Null == "null"
\* an optional PracticalInfo: absent, or present with its nearestStation
NoInfo == <<>>
Info(nearestStation) == <<[nearestStation |-> nearestStation]>>
\* the outcome of reading a property of undefined or null
TypeError == <<0 - 2>>

Tokyo == "Tokyo"
Osaka == "Osaka"
Regions == {Tokyo, Osaka}

CapacityTypes == {"theater", "school", "banquet", "standing"}

(***************************************************************************)
(* Text Normalizer.                                                        *)
(***************************************************************************)
MapSeq(s, Op(_)) == [i \in 1..Len(s) |-> Op(s[i])]

\* toHalfWidthChar with the digits left out of the character class
toHalfWidthCharLettersOnly(c) ==
    IF \/ (c >= 65313 /\ c <= 65338)
       \/ (c >= 65345 /\ c <= 65370)
    THEN c - 65248
    ELSE c

\* str.replace(/[Ａ-Ｚａ-ｚ０-９]/g, s => fromCharCode(s.charCodeAt(0) - 0xFEE0))
toHalfWidthChar(c) ==
    IF \/ (c >= 65313 /\ c <= 65338)
       \/ (c >= 65345 /\ c <= 65370)
       \/ (c >= 65296 /\ c <= 65305)
    THEN c - 65248
    ELSE c

toHalfWidth(str) == MapSeq(str, toHalfWidthChar)

\* str.replace(/[ァ-ヶ]/g, s => fromCharCode(s.charCodeAt(0) - 0x60))
katakanaToHiraganaChar(c) ==
    IF c >= 12449 /\ c <= 12534 THEN c - 96 ELSE c

katakanaToHiragana(str) == MapSeq(str, katakanaToHiraganaChar)

\* String.prototype.toLowerCase on the code units of the model: the Latin
\* capitals, standard-width and full-width.
toLowerCaseChar(c) ==
    IF (c >= 65 /\ c <= 90) \/ (c >= 65313 /\ c <= 65338) THEN c + 32 ELSE c

toLowerCase(str) == MapSeq(str, toLowerCaseChar)

normalize(str) == toLowerCase(katakanaToHiragana(toHalfWidth(str)))

(***************************************************************************)
(* String helpers of the JavaScript runtime used by the filter.            *)
(***************************************************************************)
\* the code units that \s and trim() treat as white space
IsSpace(c) == c \in {9, 10, 11, 12, 13, 32, 160, 5760, 8232, 8233, 8239, 8287, 12288, 65279}
                 \/ (c >= 8192 /\ c <= 8202)

\* text.includes(t)
Includes(text, t) ==
    \E i \in 0..(Len(text) - Len(t)) : SubSeq(text, i + 1, i + Len(t)) = t

\* Boolean(s) for an optional string: undefined, null and '' are falsy
Truthy(s) == s # NoText /\ s # <<>>

\* parts.filter(Boolean).join(' ')
RECURSIVE JoinTruthy(_)
JoinTruthy(parts) ==
    IF parts = <<>> THEN <<>>
    ELSE LET rest == JoinTruthy(Tail(parts))
         IN  IF ~Truthy(Head(parts)) THEN rest
             ELSE IF rest = <<>> THEN Head(parts)
             ELSE Head(parts) \o <<32>> \o rest

\* keyword.trim().split(/\s+/).filter(Boolean): the maximal runs of
\* non-space code units, in order
RECURSIVE SplitWords(_, _)
SplitWords(str, cur) ==
    IF str = <<>> THEN (IF cur = <<>> THEN <<>> ELSE <<cur>>)
    ELSE IF IsSpace(Head(str))
         THEN (IF cur = <<>> THEN <<>> ELSE <<cur>>) \o SplitWords(Tail(str), <<>>)
         ELSE SplitWords(Tail(str), Append(cur, Head(str)))

\* filter.keyword.trim().split(/\s+/).filter(Boolean).map(normalize)
Terms(keyword) == MapSeq(SplitWords(keyword, <<>>), normalize)

(***************************************************************************)
(* Capacity Resolver.                                                      *)
(***************************************************************************)
\* getCapacityValue with "if (val)" in place of "if (val != null)"
getCapacityValueTruthy(capacity, type) ==
    LET val == capacity[type]
    IN  IF val # Absent /\ val # 0 THEN val ELSE capacity.max

getCapacityValue(capacity, type) ==
    LET val == capacity[type]
    IN  IF val # Absent THEN val ELSE capacity.max

getMaxCapacity(room, type) ==
    LET main == getCapacityValue(room.capacity, type)
    IN  IF main # Absent THEN main ELSE 0

(***************************************************************************)
(* Match Predicate.                                                        *)
(***************************************************************************)
\* terms.some in place of terms.every: one term found is enough
SomeTerm(terms, text) ==
    terms = <<>> \/ \E i \in 1..Len(terms) : Includes(text, terms[i])

EveryTerm(terms, text) == \A i \in 1..Len(terms) : Includes(text, terms[i])

roomText(room) ==
    normalize(JoinTruthy(<<room.name, room.floor, room.equipment, room.features>>))

\* roomMatchesText with terms.some in place of terms.every
roomMatchesTextSome(room, terms) ==
    \E i \in 1..Len(terms) : Includes(roomText(room), terms[i])

roomMatchesText(room, terms) == EveryTerm(terms, roomText(room))

\* hotel.practicalInfo?.nearestStation
nearestStationOf(hotel) ==
    IF hotel.practicalInfo = NoInfo THEN NoText
    ELSE hotel.practicalInfo[1].nearestStation

\* hotelText with hotel.practicalInfo.nearestStation, without the "?."
hotelTextPlainRead(hotel) ==
    IF hotel.practicalInfo = NoInfo THEN TypeError
    ELSE normalize(JoinTruthy(<<hotel.name, hotel.address,
                                hotel.practicalInfo[1].nearestStation>>))

hotelText(hotel) ==
    normalize(JoinTruthy(<<hotel.name, hotel.address, nearestStationOf(hotel)>>))

\* the text of a hotel with the text of its rooms added
RECURSIVE roomsText(_)
roomsText(rooms) ==
    IF rooms = <<>> THEN <<>>
    ELSE <<32>> \o roomText(Head(rooms)) \o roomsText(Tail(rooms))

\* hotelMatchesText over one text that holds the hotel's and the rooms' text
hotelMatchesTextCombined(hotel, terms) ==
    EveryTerm(terms, hotelText(hotel) \o roomsText(hotel.rooms))

hotelMatchesText(hotel, terms) ==
    \/ EveryTerm(terms, hotelText(hotel))
    \/ \E i \in 1..Len(hotel.rooms) : roomMatchesText(hotel.rooms[i], terms)

(***************************************************************************)
(* Filter Engine.                                                          *)
(***************************************************************************)
\* roomPassesFilters where a room without a value passes an upper bound
roomPassesFiltersAbsentPassesMax(room, f) ==
    /\ ~(f.areaMin # Absent /\ (room.areaSqm = Absent \/ room.areaSqm < f.areaMin))
    /\ ~(f.areaMax # Absent /\ (room.areaSqm # Absent /\ room.areaSqm > f.areaMax))
    /\ ~(f.ceilingMin # Absent
           /\ (room.ceilingHeightM = Absent \/ room.ceilingHeightM < f.ceilingMin))
    /\ ~(f.ceilingMax # Absent
           /\ (room.ceilingHeightM # Absent /\ room.ceilingHeightM > f.ceilingMax))
    /\ (f.capacityMin # Absent \/ f.capacityMax # Absent) =>
          LET cap == getMaxCapacity(room, f.capacityType)
          IN  /\ cap # 0
              /\ ~(f.capacityMin # Absent /\ cap < f.capacityMin)
              /\ ~(f.capacityMax # Absent /\ cap > f.capacityMax)
    /\ ~(f.hasDivisions = "true" /\ Len(room.divisions) = 0)
    /\ ~(f.hasDivisions = "false" /\ Len(room.divisions) > 0)

\* roomPassesFilters without the rejection of a resolved capacity of 0
roomPassesFiltersZeroAdmitted(room, f) ==
    /\ ~(f.areaMin # Absent /\ (room.areaSqm = Absent \/ room.areaSqm < f.areaMin))
    /\ ~(f.areaMax # Absent /\ (room.areaSqm = Absent \/ room.areaSqm > f.areaMax))
    /\ ~(f.ceilingMin # Absent
           /\ (room.ceilingHeightM = Absent \/ room.ceilingHeightM < f.ceilingMin))
    /\ ~(f.ceilingMax # Absent
           /\ (room.ceilingHeightM = Absent \/ room.ceilingHeightM > f.ceilingMax))
    /\ (f.capacityMin # Absent \/ f.capacityMax # Absent) =>
          LET cap == getMaxCapacity(room, f.capacityType)
          IN  /\ TRUE
              /\ ~(f.capacityMin # Absent /\ cap < f.capacityMin)
              /\ ~(f.capacityMax # Absent /\ cap > f.capacityMax)
    /\ ~(f.hasDivisions = "true" /\ Len(room.divisions) = 0)
    /\ ~(f.hasDivisions = "false" /\ Len(room.divisions) > 0)

\* roomPassesFilters with the bounds taken as exclusive
roomPassesFiltersStrict(room, f) ==
    /\ ~(f.areaMin # Absent /\ (room.areaSqm = Absent \/ room.areaSqm <= f.areaMin))
    /\ ~(f.areaMax # Absent /\ (room.areaSqm = Absent \/ room.areaSqm >= f.areaMax))
    /\ ~(f.ceilingMin # Absent
           /\ (room.ceilingHeightM = Absent \/ room.ceilingHeightM <= f.ceilingMin))
    /\ ~(f.ceilingMax # Absent
           /\ (room.ceilingHeightM = Absent \/ room.ceilingHeightM >= f.ceilingMax))
    /\ (f.capacityMin # Absent \/ f.capacityMax # Absent) =>
          LET cap == getMaxCapacity(room, f.capacityType)
          IN  /\ cap # 0
              /\ ~(f.capacityMin # Absent /\ cap <= f.capacityMin)
              /\ ~(f.capacityMax # Absent /\ cap >= f.capacityMax)
    /\ ~(f.hasDivisions = "true" /\ Len(room.divisions) = 0)
    /\ ~(f.hasDivisions = "false" /\ Len(room.divisions) > 0)

\* roomPassesFilters with !filter.hasDivisions in place of
\* filter.hasDivisions === false
roomPassesFiltersDivisionsFalsy(room, f) ==
    /\ ~(f.areaMin # Absent /\ (room.areaSqm = Absent \/ room.areaSqm < f.areaMin))
    /\ ~(f.areaMax # Absent /\ (room.areaSqm = Absent \/ room.areaSqm > f.areaMax))
    /\ ~(f.ceilingMin # Absent
           /\ (room.ceilingHeightM = Absent \/ room.ceilingHeightM < f.ceilingMin))
    /\ ~(f.ceilingMax # Absent
           /\ (room.ceilingHeightM = Absent \/ room.ceilingHeightM > f.ceilingMax))
    /\ (f.capacityMin # Absent \/ f.capacityMax # Absent) =>
          LET cap == getMaxCapacity(room, f.capacityType)
          IN  /\ cap # 0
              /\ ~(f.capacityMin # Absent /\ cap < f.capacityMin)
              /\ ~(f.capacityMax # Absent /\ cap > f.capacityMax)
    /\ ~(f.hasDivisions = "true" /\ Len(room.divisions) = 0)
    /\ ~(f.hasDivisions # "true" /\ Len(room.divisions) > 0)

\* the callback of hotel.rooms.filter(room => ...)
roomPassesFilters(room, f) ==
    /\ ~(f.areaMin # Absent /\ (room.areaSqm = Absent \/ room.areaSqm < f.areaMin))
    /\ ~(f.areaMax # Absent /\ (room.areaSqm = Absent \/ room.areaSqm > f.areaMax))
    /\ ~(f.ceilingMin # Absent
           /\ (room.ceilingHeightM = Absent \/ room.ceilingHeightM < f.ceilingMin))
    /\ ~(f.ceilingMax # Absent
           /\ (room.ceilingHeightM = Absent \/ room.ceilingHeightM > f.ceilingMax))
    /\ (f.capacityMin # Absent \/ f.capacityMax # Absent) =>
          LET cap == getMaxCapacity(room, f.capacityType)
          IN  /\ cap # 0
              /\ ~(f.capacityMin # Absent /\ cap < f.capacityMin)
              /\ ~(f.capacityMax # Absent /\ cap > f.capacityMax)
    /\ ~(f.hasDivisions = "true" /\ Len(room.divisions) = 0)
    /\ ~(f.hasDivisions = "false" /\ Len(room.divisions) > 0)

\* whether the room-level stage runs at all
roomFiltersActive(f) ==
    \/ f.areaMin # Absent \/ f.areaMax # Absent
    \/ f.ceilingMin # Absent \/ f.ceilingMax # Absent
    \/ f.capacityMin # Absent \/ f.capacityMax # Absent
    \/ f.hasDivisions # Null

\* hotelPasses with the usage filter applied unless the flag is false
hotelPassesUsageByDefault(hotel, f, terms) ==
    /\ ~(Len(f.regions) > 0 /\ ~(\E i \in 1..Len(f.regions) : f.regions[i] = hotel.region))
    /\ ~(f.hasUsageRecords # "false" /\ (hotel.usageCount = Absent \/ hotel.usageCount = 0))
    /\ ~(Len(terms) > 0 /\ ~hotelMatchesText(hotel, terms))

\* hotelPasses with regions[0] === hotel.region in place of regions.includes
hotelPassesFirstRegion(hotel, f, terms) ==
    /\ ~(Len(f.regions) > 0 /\ ~(f.regions[1] = hotel.region))
    /\ ~(f.hasUsageRecords = "true" /\ (hotel.usageCount = Absent \/ hotel.usageCount = 0))
    /\ ~(Len(terms) > 0 /\ ~hotelMatchesText(hotel, terms))

\* hotelPasses without the test that regions is non-empty
hotelPassesRegionRequired(hotel, f, terms) ==
    /\ \E i \in 1..Len(f.regions) : f.regions[i] = hotel.region
    /\ ~(f.hasUsageRecords = "true" /\ (hotel.usageCount = Absent \/ hotel.usageCount = 0))
    /\ ~(Len(terms) > 0 /\ ~hotelMatchesText(hotel, terms))

\* hotelPasses where the usage flag set to false asks for no usage, the way
\* hasDivisions set to false asks for no division
hotelPassesUsageFalseExcludes(hotel, f, terms) ==
    /\ ~(Len(f.regions) > 0 /\ ~(\E i \in 1..Len(f.regions) : f.regions[i] = hotel.region))
    /\ ~(f.hasUsageRecords = "true" /\ (hotel.usageCount = Absent \/ hotel.usageCount = 0))
    /\ ~(f.hasUsageRecords = "false" /\ hotel.usageCount # Absent /\ hotel.usageCount > 0)
    /\ ~(Len(terms) > 0 /\ ~hotelMatchesText(hotel, terms))

\* the hotel survives the region, usage and hotel-level keyword steps
hotelPasses(hotel, f, terms) ==
    /\ ~(Len(f.regions) > 0 /\ ~(\E i \in 1..Len(f.regions) : f.regions[i] = hotel.region))
    /\ ~(f.hasUsageRecords = "true" /\ (hotel.usageCount = Absent \/ hotel.usageCount = 0))
    /\ ~(Len(terms) > 0 /\ ~hotelMatchesText(hotel, terms))

\* matchedRoomsOf that narrows by keyword also when the hotel matched directly
matchedRoomsOfAlwaysNarrow(hotel, f, terms) ==
    LET Pass(room) == roomPassesFilters(room, f)
        Match(room) == roomMatchesText(room, terms)
        filtered == IF roomFiltersActive(f) THEN SelectSeq(hotel.rooms, Pass)
                    ELSE hotel.rooms
    IN  IF Len(terms) > 0 THEN SelectSeq(filtered, Match) ELSE filtered

\* matchedRooms of one hotel, after the room-level filters and the
\* keyword narrowing
matchedRoomsOf(hotel, f, terms) ==
    LET Pass(room) == roomPassesFilters(room, f)
        Match(room) == roomMatchesText(room, terms)
        filtered == IF roomFiltersActive(f) THEN SelectSeq(hotel.rooms, Pass)
                    ELSE hotel.rooms
        hotelMatchesDirectly == EveryTerm(terms, hotelText(hotel))
    IN  IF Len(terms) > 0 /\ ~hotelMatchesDirectly
        THEN SelectSeq(filtered, Match)
        ELSE filtered

\* filterFrom without the check that matchedRooms is non-empty
RECURSIVE filterFromKeepEmpty(_, _, _)
filterFromKeepEmpty(hs, f, terms) ==
    IF hs = <<>> THEN <<>>
    ELSE LET hotel == Head(hs)
             rest == filterFromKeepEmpty(Tail(hs), f, terms)
         IN  IF ~hotelPasses(hotel, f, terms) THEN rest
             ELSE <<[hotel |-> hotel, matchedRooms |-> matchedRoomsOf(hotel, f, terms)]>>
                     \o rest

\* filterFrom with each result put in front of the earlier ones
RECURSIVE filterFromReversed(_, _, _)
filterFromReversed(hs, f, terms) ==
    IF hs = <<>> THEN <<>>
    ELSE LET hotel == Head(hs)
             rest == filterFromReversed(Tail(hs), f, terms)
         IN  IF ~hotelPasses(hotel, f, terms) THEN rest
             ELSE LET matchedRooms == matchedRoomsOf(hotel, f, terms)
                  IN  IF Len(matchedRooms) > 0
                      THEN rest \o <<[hotel |-> hotel, matchedRooms |-> matchedRooms]>>
                      ELSE rest

\* for (const hotel of hotels) { ... results.push({ hotel, matchedRooms }) }
RECURSIVE filterFrom(_, _, _)
filterFrom(hs, f, terms) ==
    IF hs = <<>> THEN <<>>
    ELSE LET hotel == Head(hs)
             rest == filterFrom(Tail(hs), f, terms)
         IN  IF ~hotelPasses(hotel, f, terms) THEN rest
             ELSE LET matchedRooms == matchedRoomsOf(hotel, f, terms)
                  IN  IF Len(matchedRooms) > 0
                      THEN <<[hotel |-> hotel, matchedRooms |-> matchedRooms]>> \o rest
                      ELSE rest

filterHotels(hs, f) == filterFrom(hs, f, Terms(f.keyword))

(***************************************************************************)
(* Venue store.                                                            *)
(***************************************************************************)
defaultFilter ==
    [keyword |-> <<>>, regions |-> <<>>,
     areaMin |-> Absent, areaMax |-> Absent,
     ceilingMin |-> Absent, ceilingMax |-> Absent,
     capacityMin |-> Absent, capacityMax |-> Absent,
     capacityType |-> "theater",
     hasDivisions |-> Null, hasUsageRecords |-> Null]

applyFilter(hs, f) == filterHotels(hs, f)

\* number of criteria of a FilterState that differ from the default
ActiveCount(f) ==
    Cardinality({k \in DOMAIN f : f[k] # defaultFilter[k]})

\* set({ filter, results: applyFilter(get().hotels, filter) })
setFilterState(f) ==
    /\ filter' = f
    /\ ActiveCount(f) <= MaxActive
    /\ UNCHANGED <<selection, sharedDefault>>
    /\ UNCHANGED <<hotels, usageRecords, loading, mounted, pending>>
    /\ results' = applyFilter(hotels, f)

\* setFilter that patches the previous results instead of filtering all
\* the hotels again
setFilterIncremental(f) ==
    /\ ActiveCount(f) <= MaxActive
    /\ filter' = f
    /\ results' = applyFilter([i \in 1..Len(results) |-> results[i].hotel], f)
    /\ UNCHANGED <<hotels, usageRecords, loading, mounted, pending>>
    /\ UNCHANGED <<selection, sharedDefault, outside>>

\* a setter of the store called from a control that keeps no state of its
\* own
setFilter(f) ==
    /\ setFilterState(f)
    /\ UNCHANGED outside

setKeyword(keyword) == setFilter([filter EXCEPT !.keyword = keyword])

\* toggleRegion that edits the regions array where it is: while the filter
\* still holds the array of the module-level defaultFilter, that object is
\* edited with it
toggleRegionInPlace(region) ==
    LET current == filter.regions
        Other(r) == r # region
        regions == IF \E i \in 1..Len(current) : current[i] = region
                   THEN SelectSeq(current, Other)
                   ELSE Append(current, region)
        f == [filter EXCEPT !.regions = regions]
    IN  /\ ActiveCount(f) <= MaxActive
        /\ filter' = f
        /\ results' = applyFilter(hotels, f)
        /\ sharedDefault' = IF current = sharedDefault.regions
                            THEN [sharedDefault EXCEPT !.regions = regions]
                            ELSE sharedDefault
        /\ UNCHANGED <<hotels, usageRecords, loading, mounted, pending>>
        /\ UNCHANGED <<selection, outside>>

toggleRegion(region) ==
    LET current == filter.regions
        Other(r) == r # region
        regions == IF \E i \in 1..Len(current) : current[i] = region
                   THEN SelectSeq(current, Other)
                   ELSE Append(current, region)
    IN  setFilter([filter EXCEPT !.regions = regions])

setAreaMin(v) == setFilter([filter EXCEPT !.areaMin = v])
setAreaMax(v) == setFilter([filter EXCEPT !.areaMax = v])
setCeilingMin(v) == setFilter([filter EXCEPT !.ceilingMin = v])
setCeilingMax(v) == setFilter([filter EXCEPT !.ceilingMax = v])
setCapacityMin(v) == setFilter([filter EXCEPT !.capacityMin = v])
setCapacityMax(v) == setFilter([filter EXCEPT !.capacityMax = v])
setCapacityType(type) == setFilter([filter EXCEPT !.capacityType = type])
setHasDivisions(v) == setFilter([filter EXCEPT !.hasDivisions = v])
setHasUsageRecords(v) == setFilter([filter EXCEPT !.hasUsageRecords = v])

\* set({ filter: { ...defaultFilter }, results: applyFilter(hotels,
\* defaultFilter) }): the module-level object is read when the action runs
resetFilters == setFilter(sharedDefault)

\* what the selection actions leave alone
catalogue ==
    <<hotels, usageRecords, filter, results, loading, mounted, pending,
      sharedDefault>>

selectHotel(id) ==
    /\ selectedHotelId' = id
    /\ UNCHANGED <<comparisonRooms, showComparison, viewMode>>
    /\ UNCHANGED <<catalogue, outside>>

\* `${hotel.id}:${room.id}`
comparisonKey(hotel, room) == hotel.id \o ":" \o room.id

toggleComparisonRoom(hotel, room) ==
    LET current == comparisonRooms
        key == comparisonKey(hotel, room)
        Differs(c) == comparisonKey(c.hotel, c.room) # key
        exists == \E i \in 1..Len(current) :
                     comparisonKey(current[i].hotel, current[i].room) = key
    IN  /\ comparisonRooms' =
              IF exists THEN SelectSeq(current, Differs)
              ELSE IF Len(current) < 6
                   THEN Append(current, [hotel |-> hotel, room |-> room])
                   ELSE current
        /\ UNCHANGED <<selectedHotelId, showComparison, viewMode>>
        /\ UNCHANGED <<catalogue, outside>>

clearComparison ==
    /\ comparisonRooms' = <<>>
    /\ showComparison' = FALSE
    /\ UNCHANGED <<selectedHotelId, viewMode>>
    /\ UNCHANGED <<catalogue, outside>>

setShowComparison(show) ==
    /\ showComparison' = show
    /\ UNCHANGED <<selectedHotelId, comparisonRooms, viewMode>>
    /\ UNCHANGED <<catalogue, outside>>

setViewMode(mode) ==
    /\ viewMode' = mode
    /\ UNCHANGED <<selectedHotelId, comparisonRooms, showComparison>>
    /\ UNCHANGED <<catalogue, outside>>

ViewModes == {"list", "map", "bi"}

\* loadHotels up to its await: set({ loading: true }) and the two fetches
\* are started
loadHotels ==
    /\ pending < MaxLoads
    /\ loading' = TRUE
    /\ pending' = pending + 1
    /\ UNCHANGED <<hotels, usageRecords, filter, results>>
    /\ UNCHANGED <<selection, sharedDefault, outside>>

\* useEffect(() => { loadHotels() }, [loadHotels]): the effect of SearchPage
\* runs; PasswordGate renders SearchPage only while authed is true
SearchPageEffect ==
    /\ gate.authed
    /\ loadHotels
    /\ mounted' = TRUE

\* the effect runs once, when SearchPage is mounted
SearchPageMount ==
    /\ ~mounted
    /\ SearchPageEffect

\* loadHotelsResolve with set({ hotels, results, loading: false }): the
\* usage records are left as they were
loadHotelsResolveVenuesOnly(data, usage) ==
    /\ pending > 0
    /\ pending' = pending - 1
    /\ hotels' = data
    /\ results' = applyFilter(data, filter)
    /\ loading' = FALSE
    /\ UNCHANGED <<usageRecords, filter, mounted>>
    /\ UNCHANGED <<selection, sharedDefault, outside>>

\* both fetches settled without error: the rest of loadHotels runs
loadHotelsResolve(data, usage) ==
    /\ pending > 0
    /\ pending' = pending - 1
    /\ hotels' = data
    /\ usageRecords' = usage
    /\ results' = applyFilter(data, filter)
    /\ loading' = FALSE
    /\ UNCHANGED <<filter, mounted>>
    /\ UNCHANGED <<selection, sharedDefault, outside>>

\* a fetch failed: loadHotels throws before any set()
loadHotelsReject ==
    /\ pending > 0
    /\ pending' = pending - 1
    /\ UNCHANGED <<hotels, usageRecords, filter, results, loading, mounted>>
    /\ UNCHANGED <<selection, sharedDefault, outside>>

(***************************************************************************)
(* The datasets a load can deliver, and the inputs of the user.            *)
(***************************************************************************)
Capacity(theater, school, banquet, standing, max) ==
    [theater |-> theater, school |-> school, banquet |-> banquet,
     standing |-> standing, max |-> max]

Room(id, name, floor, equipment, features, areaSqm, ceilingHeightM, capacity, divisions) ==
    [id |-> id, name |-> name, floor |-> floor, equipment |-> equipment,
     features |-> features, areaSqm |-> areaSqm, ceilingHeightM |-> ceilingHeightM,
     capacity |-> capacity, divisions |-> divisions]

Hotel(id, name, address, practicalInfo, region, usageCount, rooms) ==
    [id |-> id, name |-> name, address |-> address, practicalInfo |-> practicalInfo,
     region |-> region, usageCount |-> usageCount, rooms |-> rooms]

HotelIds == <<"h1", "h2", "h3", "h4", "h5", "h6">>

RoomIds == <<"r1", "r2", "r3", "r4", "r5", "r6", "r7", "r8">>

\* a list gets the ids h1, h2, ... (hotels) or r1, r2, ... (rooms) in order
WithIds(xs, ids) == [i \in 1..Len(xs) |-> [xs[i] EXCEPT !.id = ids[i]]]

PlainCapacity == Capacity(2, Absent, Absent, Absent, Absent)

\* a room that varies in its texts only
TextRoom(name, floor, equipment, features, areaSqm, divisions) ==
    Room("r", name, floor, equipment, features, areaSqm, 2, PlainCapacity, divisions)

\* <<name, address, practicalInfo>> of a hotel: "c"/"c", "a"/"c", "a"/"b"
\* and "c"/"カ"/"ｂ" (katakana, full width)
HotelTexts ==
    << <<<<99>>, <<99>>, NoInfo>>,
       <<<<97>>, <<99>>, Info(NoText)>>,
       <<<<97>>, <<98>>, NoInfo>>,
       <<<<99>>, <<12459>>, Info(<<65346>>)>> >>

\* the rooms of a text hotel: texts "c" | "c b"; "a" | "b a"; "a b" | "c";
\* "Ａ B" | "c ab"; "a" | "c b" | "c"
RoomLists ==
    { << TextRoom(<<99>>, NoText, NoText, NoText, 1, <<>>),
         TextRoom(<<99>>, <<98>>, NoText, NoText, 3, <<"d1">>) >>,
      << TextRoom(<<97>>, NoText, NoText, NoText, 1, <<>>),
         TextRoom(<<98>>, <<97>>, NoText, NoText, 3, <<"d1">>) >>,
      << TextRoom(<<97>>, NoText, <<98>>, <<>>, 1, <<>>),
         TextRoom(<<99>>, NoText, NoText, NoText, 3, <<"d1">>) >>,
      << TextRoom(<<65313>>, <<>>, NoText, <<66>>, 1, <<>>),
         TextRoom(<<99>>, NoText, NoText, <<97, 98>>, 3, <<"d1">>) >>,
      << TextRoom(<<97>>, NoText, NoText, NoText, 1, <<>>),
         TextRoom(<<99>>, NoText, <<98>>, NoText, 3, <<"d1">>),
         TextRoom(<<99>>, NoText, NoText, NoText, Absent, <<>>) >> }

\* one hotel per hotel text, all with the same rooms
TextDatasets ==
    { WithIds([i \in 1..Len(HotelTexts) |->
                 Hotel("h", HotelTexts[i][1], HotelTexts[i][2], HotelTexts[i][3],
                       Tokyo, 1, WithIds(rooms, RoomIds))], HotelIds)
        : rooms \in RoomLists }

\* a room that varies in area and ceiling height only
NumericRoom(areaSqm, ceilingHeightM) ==
    Room("r", <<97>>, NoText, NoText, NoText, areaSqm, ceilingHeightM, PlainCapacity, <<>>)

\* a hotel whose rooms share the area and have each ceiling height
NumericHotel(areaSqm) ==
    Hotel("h", <<99>>, <<99>>, NoInfo, Osaka, Absent,
          WithIds(<< NumericRoom(areaSqm, 3), NumericRoom(areaSqm, Absent),
                     NumericRoom(areaSqm, 1), NumericRoom(areaSqm, 2) >>, RoomIds))

NoRoomsHotel == Hotel("h", <<97>>, <<98>>, NoInfo, Tokyo, 1, <<>>)

NumericDataset ==
    WithIds(<< NumericHotel(2), NumericHotel(Absent), NoRoomsHotel,
               NumericHotel(3), NumericHotel(1) >>, HotelIds)

\* a room that varies in its capacity record only
CapacityRoom(capacity) ==
    Room("r", <<99>>, NoText, NoText, NoText, 2, Absent, capacity, <<>>)

\* a hotel whose rooms differ in the named dimensions and share max
CapacityHotel(max) ==
    Hotel("h", <<97>>, <<99>>, Info(NoText), Tokyo, 0,
          WithIds(<< CapacityRoom(Capacity(Absent, Absent, Absent, Absent, max)),
                     CapacityRoom(Capacity(0, Absent, Absent, Absent, max)),
                     CapacityRoom(Capacity(1, Absent, Absent, Absent, max)),
                     CapacityRoom(Capacity(3, 2, Absent, Absent, max)),
                     CapacityRoom(Capacity(Absent, 2, Absent, Absent, max)),
                     CapacityRoom(Capacity(0, 2, 1, Absent, max)),
                     CapacityRoom(Capacity(Absent, Absent, 1, 0, max)),
                     CapacityRoom(Capacity(Absent, Absent, Absent, 3, max)) >>, RoomIds))

\* a hotel whose one room records a theater capacity of 0 and nothing else
ZeroCapacityHotel ==
    Hotel("h", <<98>>, <<99>>, NoInfo, Osaka, 1,
          WithIds(<< CapacityRoom(Capacity(0, Absent, Absent, Absent, Absent)) >>, RoomIds))

CapacityDataset ==
    WithIds(<< CapacityHotel(Absent), ZeroCapacityHotel, CapacityHotel(2),
               CapacityHotel(0) >>, HotelIds)

\* a hotel with the given region, usage count and divisions of its first room
FlagHotel(region, usageCount, divisions) ==
    Hotel("h", <<97>>, <<99>>, NoInfo, region, usageCount,
          WithIds(<< Room("r", <<98>>, NoText, NoText, NoText, 2, 2, PlainCapacity, divisions),
                     Room("r", <<99>>, NoText, NoText, NoText, 1, 3,
                          Capacity(Absent, Absent, Absent, Absent, 1), <<>>) >>, RoomIds))

FlagDataset ==
    WithIds(<< FlagHotel(Tokyo, 0, <<>>), NoRoomsHotel,
               FlagHotel(Osaka, 1, <<"d1", "d2">>), FlagHotel(Osaka, 0, <<>>),
               FlagHotel(Tokyo, Absent, <<"d1">>), FlagHotel(Tokyo, 1, <<>>) >>, HotelIds)

Datasets ==
    {<<>>, NumericDataset, CapacityDataset, FlagDataset} \cup TextDatasets

\* the usage_records rows of the database that holds data: one for each
\* hotel with a positive usage count
UsageRecordsOf(data) ==
    LET Used(hotel) == hotel.usageCount # Absent /\ hotel.usageCount > 0
        used == SelectSeq(data, Used)
    IN  [i \in 1..Len(used) |-> [hotelId |-> used[i].id]]

\* what the user types into the search bar: "", "a", "b", "ab", "a b",
\* " a ", "A", " ", "a　b" (ideographic space), "か"
Keywords ==
    { <<>>, <<97>>, <<98>>, <<97, 98>>, <<97, 32, 98>>, <<32, 97, 32>>,
      <<65>>, <<32>>, <<97, 12288, 98>>, <<12363>> }

\* a numeric input of the filter panel: unset or a positive number
Bounds == {Absent, 1, 2}

Flags == {Null, "true", "false"}

(***************************************************************************)
(* Filter panel: the numeric inputs (components/layout/FilterPanel).       *)
(***************************************************************************)
\* the value of a run of decimal digits
RECURSIVE DigitsValue(_)
DigitsValue(s) ==
    IF s = <<>> THEN 0
    ELSE 10 * DigitsValue(SubSeq(s, 1, Len(s) - 1)) + (s[Len(s)] - 48)

IsDigits(s) == Len(s) > 0 /\ \A i \in 1..Len(s) : s[i] \in 48..57

\* Number(string) for the strings of a text field: an optional sign and
\* decimal digits give the number, the empty string 0, anything else NaN
Number(s) ==
    IF s = <<>> THEN [nan |-> FALSE, n |-> 0]
    ELSE IF IsDigits(s) THEN [nan |-> FALSE, n |-> DigitsValue(s)]
    ELSE IF s[1] = 45 /\ IsDigits(Tail(s))
         THEN [nan |-> FALSE, n |-> 0 - DigitsValue(Tail(s))]
    ELSE IF s[1] = 43 /\ IsDigits(Tail(s))
         THEN [nan |-> FALSE, n |-> DigitsValue(Tail(s))]
    ELSE [nan |-> TRUE, n |-> 0]

\* NumberInput whose onChange hands every number on: onChange(n)
NumberInputAnyNumber(value) ==
    IF value = <<>> THEN Absent
    ELSE LET n == Number(value)
         IN  IF n.nan THEN Absent ELSE n.n

\* the onChange of NumberInput: the bound handed to the setter for the text
\* of the field
NumberInput(value) ==
    IF value = <<>> THEN Absent
    ELSE LET n == Number(value)
         IN  IF ~n.nan /\ n.n # 0 /\ n.n > 0 THEN n.n ELSE Absent

\* the texts a numeric field can hold: empty, "0", "-2", "e", "1", "2", "02"
Entries ==
    {<<>>, <<48>>, <<45, 50>>, <<101>>, <<49>>, <<50>>, <<48, 50>>}

(***************************************************************************)
(* Search bar (components/layout/SearchBar).                               *)
(***************************************************************************)
\* searchBar.mounted: SearchBar is rendered; searchBar.value: the text of
\* its uncontrolled input; searchBar.timerRef: timerRef.current;
\* searchBar.timers: the timeouts of SearchBar that the host has pending
\* before SearchBar is mounted: no input element, no timer
SearchBarInit ==
    [mounted |-> FALSE, value |-> <<>>, timerRef |-> Absent, timers |-> {}]

\* clearTimeout(id)
clearTimeout(timers, id) == {t \in timers : t.id # id}

\* the id setTimeout returns: one that no pending timer has and that is
\* not the id last handed out
NewTimerId(timers, last) ==
    CHOOSE id \in 1..(MaxTimers + 2) :
        /\ id # last
        /\ \A t \in timers : t.id # id
        /\ \A other \in 1..(id - 1) : other = last \/ \E t \in timers : t.id = other

\* SearchPage renders SearchBar once loading is false: useRef(undefined),
\* defaultValue={keyword}
SearchBarMount ==
    /\ mounted /\ ~loading
    /\ ~searchBar.mounted
    /\ searchBar' = [searchBar EXCEPT !.mounted = TRUE, !.value = filter.keyword,
                                      !.timerRef = Absent]
    /\ UNCHANGED <<catalogue, selection, gate, db>>

\* SearchBar goes away: the cleanup of its effect runs
SearchBarUnmount ==
    /\ searchBar.mounted
    /\ searchBar' =
          [searchBar EXCEPT
             !.mounted = FALSE,
             !.timers = IF searchBar.timerRef # Absent /\ searchBar.timerRef # 0
                        THEN clearTimeout(@, searchBar.timerRef) ELSE @]
    /\ UNCHANGED <<catalogue, selection, gate, db>>

\* handleChange that starts the new timer without cancelling the previous
handleChangeNoCancel(value) ==
    /\ searchBar.mounted
    /\ value # searchBar.value
    /\ Cardinality(searchBar.timers) < MaxTimers
    /\ LET id == NewTimerId(searchBar.timers, searchBar.timerRef)
       IN  searchBar' = [searchBar EXCEPT
                           !.value = value,
                           !.timers = @ \cup {[id |-> id, value |-> value]},
                           !.timerRef = id]
    /\ UNCHANGED <<catalogue, selection, gate, db>>

\* the user edits the text of the input to value: onChange calls
\* handleChange(value)
handleChange(value) ==
    /\ searchBar.mounted
    /\ value # searchBar.value
    /\ LET kept == IF searchBar.timerRef # Absent /\ searchBar.timerRef # 0
                   THEN clearTimeout(searchBar.timers, searchBar.timerRef)
                   ELSE searchBar.timers
           id == NewTimerId(kept, searchBar.timerRef)
       IN  /\ Cardinality(kept) < MaxTimers
           /\ searchBar' = [searchBar EXCEPT
                              !.value = value,
                              !.timers = kept \cup {[id |-> id, value |-> value]},
                              !.timerRef = id]
    /\ UNCHANGED <<catalogue, selection, gate, db>>

\* 200 ms have passed since setTimeout: the host runs
\* () => setKeyword(value) of the pending timer t
timerFires(t) ==
    /\ t \in searchBar.timers
    /\ searchBar' = [searchBar EXCEPT !.timers = @ \ {t}]
    /\ setFilterState([filter EXCEPT !.keyword = t.value])
    /\ UNCHANGED <<gate, db>>

\* the clear button, rendered while the keyword of the store is truthy:
\* setKeyword(''); inputRef.current.value = ''
clearKeyword ==
    /\ searchBar.mounted
    /\ Truthy(filter.keyword)
    /\ searchBar' = [searchBar EXCEPT !.value = <<>>]
    /\ setFilterState([filter EXCEPT !.keyword = <<>>])
    /\ UNCHANGED <<gate, db>>

\* the texts typed into the search input: "", "a", "ab"
BarTexts == {<<>>, <<97>>, <<97, 98>>}

\* every timer a step can fire
TimerValues == [id : 1..(MaxTimers + 2), value : BarTexts]

\* results.reduce((sum, r) => sum + r.matchedRooms.length, 0): the room
\* total the search bar shows
RECURSIVE roomCount(_)
roomCount(rs) ==
    IF rs = <<>> THEN 0
    ELSE roomCount(SubSeq(rs, 1, Len(rs) - 1)) + Len(rs[Len(rs)].matchedRooms)

(***************************************************************************)
(* Analytics dashboard (components/bi/BIDashboard).                        *)
(***************************************************************************)
\* results.reduce((sum, r) => sum + r.hotel.rooms.length, 0)
RECURSIVE totalRooms(_)
totalRooms(rs) ==
    IF rs = <<>> THEN 0
    ELSE totalRooms(SubSeq(rs, 1, Len(rs) - 1)) + Len(rs[Len(rs)].hotel.rooms)

\* usageRecords.filter(r => r.hotelId && filteredHotelIds.has(r.hotelId))
filteredUsage(rs, usage) ==
    LET filteredHotelIds == {rs[i].hotel.id : i \in 1..Len(rs)}
        Kept(r) == r.hotelId \in filteredHotelIds
    IN  SelectSeq(usage, Kept)

\* the four KPI cards
kpi(rs, usage) ==
    [venues |-> Len(rs),
     rooms |-> totalRooms(rs),
     usages |-> Len(filteredUsage(rs, usage)),
     regions |-> Cardinality({rs[i].hotel.region : i \in 1..Len(rs)})]

(***************************************************************************)
(* Password gate (components/auth/PasswordGate).                           *)
(***************************************************************************)
\* gate.authed, gate.password, gate.error: the state of PasswordGate;
\* gate.storage: sessionStorage.getItem(STORAGE_KEY), Null when absent;
\* gate.hashing: the passwords of the handleSubmit calls that await sha256;
\* gate.errorTimers: the pending () => setError(false) timeouts
HASH == "88453cd3db4797874b9be4c433738cb5d67fc24a02d04a89882bc95ecb0f3c44"

\* the passwords typed: the empty one, a wrong one and the one whose
\* SHA-256 is HASH
Passwords == {"", "guess", "sesame"}

\* the hex digest of text: HASH for the password of the site, another
\* digest for every other text
sha256(text) == IF text = "sesame" THEN HASH ELSE "sha256 of " \o text

\* what the session storage can hold when the page opens: nothing, the
\* expected hash, or something else
StoredValues == {Null, HASH, "stale"}

\* PasswordGate is mounted:
\* useState(() => sessionStorage.getItem(STORAGE_KEY) === HASH)
PasswordGate(stored) ==
    [authed |-> stored = HASH, password |-> "", error |-> FALSE,
     storage |-> stored, hashing |-> {}, errorTimers |-> 0]

\* a session whose storage holds the expected hash: the gate is open
GateOpen == PasswordGate(HASH)

beyondGate ==
    <<hotels, usageRecords, filter, results, loading, mounted, pending,
      selection, sharedDefault, searchBar, db>>

\* onChange of the password input, shown while authed is false
setPassword(text) ==
    /\ ~gate.authed
    /\ gate' = [gate EXCEPT !.password = text]
    /\ UNCHANGED beyondGate

\* the form is submitted: handleSubmit runs up to await sha256(password)
handleSubmit ==
    /\ ~gate.authed
    /\ gate' = [gate EXCEPT !.hashing = @ \cup {gate.password}]
    /\ UNCHANGED beyondGate

\* handleSubmit that lets every password in
handleSubmitSettlesAny(text) ==
    /\ text \in gate.hashing
    /\ gate' = [gate EXCEPT !.hashing = @ \ {text}, !.storage = HASH,
                            !.authed = TRUE]
    /\ UNCHANGED beyondGate

\* sha256(password) resolves: the rest of handleSubmit runs
handleSubmitSettles(text) ==
    /\ text \in gate.hashing
    /\ IF sha256(text) = HASH
       THEN gate' = [gate EXCEPT !.hashing = @ \ {text}, !.storage = HASH,
                                 !.authed = TRUE]
       ELSE /\ gate.errorTimers < MaxTimers
            /\ gate' = [gate EXCEPT !.hashing = @ \ {text}, !.error = TRUE,
                                    !.errorTimers = @ + 1]
    /\ UNCHANGED beyondGate

\* 1500 ms after a wrong password: () => setError(false)
errorTimerFires ==
    /\ gate.errorTimers > 0
    /\ gate' = [gate EXCEPT !.error = FALSE, !.errorTimers = @ - 1]
    /\ UNCHANGED beyondGate

(***************************************************************************)
(* Database seed (db/seed).                                                *)
(***************************************************************************)
\* db.durable: the committed rows of venues, rooms and usage_records;
\* db.working: the rows as the open transaction of the seed client sees
\* them (none or one); db.pc, db.n: where seed() stands and the query it
\* awaits next; db.venues, db.usage: the two JSON files as read;
\* db.client, db.pool: the pg client and pool; db.outcome: how the promise
\* of seed() settled.
EmptyTables == [venues |-> <<>>, rooms |-> <<>>, usage_records |-> <<>>]

DbInit ==
    [durable |-> EmptyTables, working |-> <<>>, pc |-> "idle", n |-> 0,
     venues |-> <<>>, usage |-> <<>>, client |-> "none", pool |-> "open",
     outcome |-> "none"]

\* the parameters of INSERT INTO venues for the hotel v
venueRow(v) ==
    [id |-> v.id, name |-> v.name,
     address |-> IF Truthy(v.address) THEN v.address ELSE NoText,
     region |-> v.region,
     usage_count |-> IF v.usageCount # Absent THEN v.usageCount ELSE 0,
     practical_info |-> v.practicalInfo]

\* the parameters of INSERT INTO rooms for the room r of the hotel v: the
\* table has a column for each of theater, school, banquet and standing
roomRow(v, r) ==
    [id |-> r.id, venue_id |-> v.id, name |-> r.name, floor |-> r.floor,
     area_sqm |-> r.areaSqm, ceiling_height_m |-> r.ceilingHeightM,
     capacity_theater |-> r.capacity.theater,
     capacity_school |-> r.capacity.school,
     capacity_banquet |-> r.capacity.banquet,
     capacity_standing |-> r.capacity.standing,
     divisions |-> r.divisions,
     extra |-> [equipment |-> IF Truthy(r.equipment) THEN r.equipment ELSE NoText,
                features |-> IF Truthy(r.features) THEN r.features ELSE NoText]]

\* the parameters of INSERT INTO usage_records for the record u
usageRow(u) == [id |-> u.id, venue_id |-> u.hotelId]

Insert(table, row) == [op |-> "INSERT", table |-> table, row |-> row]
Delete(table) == [op |-> "DELETE", table |-> table, row |-> <<>>]
Statement(op) == [op |-> op, table |-> "", row |-> <<>>]

\* the INSERTs of the hotels from the i-th on: each hotel, then its rooms
RECURSIVE venueInserts(_)
venueInserts(vs) ==
    IF vs = <<>> THEN <<>>
    ELSE LET v == Head(vs)
         IN  <<Insert("venues", venueRow(v))>>
             \o [j \in 1..Len(v.rooms) |-> Insert("rooms", roomRow(v, v.rooms[j]))]
             \o venueInserts(Tail(vs))

\* the queries seed() awaits inside try, in order
seedQueries(venues, usage) ==
    <<Statement("BEGIN"), Delete("usage_records"), Delete("rooms"), Delete("venues")>>
    \o venueInserts(venues)
    \o [k \in 1..Len(usage) |-> Insert("usage_records", usageRow(usage[k]))]
    \o <<Statement("COMMIT"), Statement("SELECT"), Statement("SELECT"), Statement("SELECT")>>

HasId(rows, id) == \E i \in 1..Len(rows) : rows[i].id = id

\* the row breaks a constraint of init.sql: PRIMARY KEY of the table,
\* REFERENCES venues(id) of rooms and of usage_records
Rejected(tables, q) ==
    /\ q.op = "INSERT"
    /\ \/ HasId(tables[q.table], q.row.id)
       \/ /\ q.table = "rooms"
          /\ ~HasId(tables.venues, q.row.venue_id)
       \/ /\ q.table = "usage_records"
          /\ q.row.venue_id # Null
          /\ ~HasId(tables.venues, q.row.venue_id)

\* the rows after the statement q
Applied(tables, q) ==
    IF q.op = "INSERT" THEN [tables EXCEPT ![q.table] = Append(@, q.row)]
    ELSE IF q.op = "DELETE" THEN [tables EXCEPT ![q.table] = <<>>]
    ELSE tables

\* the database after the statement q of the seed client: inside a
\* transaction it works on the rows of the transaction, outside it commits
\* at once
Executed(d, q) ==
    IF q.op = "BEGIN" THEN [d EXCEPT !.working = <<d.durable>>]
    ELSE IF q.op = "COMMIT"
         THEN IF d.working = <<>> THEN d
              ELSE [d EXCEPT !.durable = d.working[1], !.working = <<>>]
    ELSE IF q.op = "ROLLBACK" THEN [d EXCEPT !.working = <<>>]
    ELSE IF d.working = <<>> THEN [d EXCEPT !.durable = Applied(@, q)]
    ELSE [d EXCEPT !.working = <<Applied(d.working[1], q)>>]

\* the rows the seed client sees
Visible(d) == IF d.working = <<>> THEN d.durable ELSE d.working[1]

storeAndPage ==
    <<hotels, usageRecords, filter, results, loading, mounted, pending,
      selection, sharedDefault, searchBar, gate>>

\* npx tsx db/seed.ts: a process starts, creates the pool and calls seed(),
\* which reads the two files
seedStart(venues, usage) ==
    /\ db.pc \in {"idle", "done"}
    /\ db' = [db EXCEPT !.pc = "connect", !.n = 0, !.venues = venues,
                        !.usage = usage, !.client = "none", !.pool = "open",
                        !.outcome = "none"]
    /\ UNCHANGED storeAndPage

\* readFileSync or JSON.parse throws: seed() rejects before pool.connect()
seedReadFails ==
    /\ db.pc \in {"idle", "done"}
    /\ db' = [db EXCEPT !.pc = "done", !.n = 0, !.venues = <<>>, !.usage = <<>>,
                        !.client = "none", !.pool = "open",
                        !.outcome = "rejected"]
    /\ UNCHANGED storeAndPage

\* const client = await pool.connect()
seedConnect ==
    /\ db.pc = "connect"
    /\ db' = [db EXCEPT !.pc = "try", !.n = 1, !.client = "held"]
    /\ UNCHANGED storeAndPage

\* pool.connect() rejects: seed() rejects outside try
seedConnectFails ==
    /\ db.pc = "connect"
    /\ db' = [db EXCEPT !.pc = "done", !.outcome = "rejected"]
    /\ UNCHANGED storeAndPage

\* await client.query(...) inside try: the next statement runs, or breaks a
\* constraint and throws
seedQuery ==
    /\ db.pc = "try"
    /\ LET queries == seedQueries(db.venues, db.usage)
           q == queries[db.n]
           last == db.n = Len(queries)
       IN  IF Rejected(Visible(db), q)
           THEN db' = [db EXCEPT !.pc = "catch"]
           ELSE db' = [Executed(db, q) EXCEPT
                         !.pc = IF last THEN "finally" ELSE "try",
                         !.n = IF last THEN db.n ELSE db.n + 1,
                         !.outcome = IF last THEN "resolved" ELSE "none"]
    /\ UNCHANGED storeAndPage

\* await client.query(...) inside try rejects for a reason of the server or
\* the connection: the statement has no effect
seedQueryFails ==
    /\ db.pc = "try"
    /\ db' = [db EXCEPT !.pc = "catch"]
    /\ UNCHANGED storeAndPage

\* catch: await client.query('ROLLBACK'); throw err
seedRollback ==
    /\ db.pc = "catch"
    /\ db' = [Executed(db, Statement("ROLLBACK")) EXCEPT
                !.pc = "finally", !.outcome = "rejected"]
    /\ UNCHANGED storeAndPage

\* finally: client.release(); await pool.end(). The server drops what a
\* transaction left open when its connection ends.
seedFinally ==
    /\ db.pc = "finally"
    /\ db' = [db EXCEPT !.pc = "done", !.client = "released", !.pool = "ended",
                        !.working = <<>>]
    /\ UNCHANGED storeAndPage

\* the list sorted by name, code unit by code unit: .order('name')
RECURSIVE NameBefore(_, _)
NameBefore(a, b) ==
    IF b = <<>> THEN FALSE
    ELSE IF a = <<>> THEN TRUE
    ELSE IF Head(a) # Head(b) THEN Head(a) < Head(b)
    ELSE NameBefore(Tail(a), Tail(b))

RECURSIVE orderByName(_)
orderByName(rows) ==
    IF rows = <<>> THEN <<>>
    ELSE LET First(r) == \A i \in 1..Len(rows) : ~NameBefore(rows[i].name, r.name)
             first == CHOOSE i \in 1..Len(rows) :
                         /\ First(rows[i])
                         /\ \A k \in 1..(i - 1) : ~First(rows[k])
             rest == [k \in 1..(Len(rows) - 1) |->
                         IF k < first THEN rows[k] ELSE rows[k + 1]]
         IN  <<rows[first]>> \o orderByName(rest)

\* the Room that loadHotels builds of a row of rooms: the capacity gets the
\* four columns
rowRoom(r) ==
    Room(r.id, r.name, r.floor, r.extra.equipment, r.extra.features,
         r.area_sqm, r.ceiling_height_m,
         Capacity(r.capacity_theater, r.capacity_school, r.capacity_banquet,
                  r.capacity_standing, Absent),
         r.divisions)

\* the Hotel that loadHotels builds of a row of venues and its rooms(*)
rowHotel(v, rooms) ==
    LET Own(r) == r.venue_id = v.id
        own == SelectSeq(rooms, Own)
    IN  Hotel(v.id, v.name, v.address, v.practical_info, v.region, v.usage_count,
              [j \in 1..Len(own) |-> rowRoom(own[j])])

\* venuesResult.data.map(...) of
\* supabase.from('venues').select('*, rooms(*)').order('name')
databaseHotels(tables) ==
    LET ordered == orderByName(tables.venues)
    IN  [i \in 1..Len(ordered) |-> rowHotel(ordered[i], tables.rooms)]

\* usageResult.data.map(...)
databaseUsageRecords(tables) ==
    [k \in 1..Len(tables.usage_records) |->
        [hotelId |-> tables.usage_records[k].venue_id]]

\* loadHotels of the database-backed store settles: both queries read the
\* committed rows
loadHotelsFromDatabase ==
    loadHotelsResolve(databaseHotels(db.durable), databaseUsageRecords(db.durable))

\* the rows a seed() of the two files leaves when it commits
seeded(venues, usage) ==
    [venues |-> [i \in 1..Len(venues) |-> venueRow(venues[i])],
     rooms |-> LET RECURSIVE all(_)
                   all(vs) ==
                       IF vs = <<>> THEN <<>>
                       ELSE [j \in 1..Len(Head(vs).rooms) |->
                                roomRow(Head(vs), Head(vs).rooms[j])]
                            \o all(Tail(vs))
               IN  all(venues),
     usage_records |-> [k \in 1..Len(usage) |-> usageRow(usage[k])]]

\* usage-records.json for venues.json: a record for each hotel with a
\* positive usage count
UsageJson(data) ==
    LET Used(hotel) == hotel.usageCount # Absent /\ hotel.usageCount > 0
        used == SelectSeq(data, Used)
    IN  [i \in 1..Len(used) |-> [id |-> "u-" \o used[i].id, hotelId |-> used[i].id]]

\* a room of a seed file: only the id and the capacity vary
SeedRoom(id, capacity) ==
    Room(id, <<99>>, NoText, <<>>, NoText, 2, Absent, capacity, <<>>)

\* venues.json, first edition: hotel "b" (no usage count, empty address)
\* with a room that records theater 2 and a room that records max 2 only;
\* hotel "a" with a room without any capacity
SeedFileA ==
    << Hotel("v1", <<98>>, <<>>, NoInfo, Tokyo, Absent,
             << SeedRoom("r1", Capacity(2, Absent, Absent, Absent, Absent)),
                SeedRoom("r2", Capacity(Absent, Absent, Absent, Absent, 2)) >>),
       Hotel("v2", <<97>>, <<99>>, Info(NoText), Osaka, 1,
             << SeedRoom("r3", Capacity(Absent, Absent, Absent, Absent, Absent)) >>) >>

\* venues.json, second edition: one hotel, one room
SeedFileB ==
    << Hotel("v3", <<97>>, <<99>>, NoInfo, Tokyo, 1,
             << SeedRoom("r1", Capacity(1, 2, Absent, Absent, 1)) >>) >>

\* venues.json in which two hotels use the room id "r1"
SeedFileTwice ==
    << Hotel("v1", <<97>>, <<99>>, NoInfo, Tokyo, 1,
             << SeedRoom("r1", PlainCapacity) >>),
       Hotel("v2", <<98>>, <<99>>, NoInfo, Osaka, Absent,
             << SeedRoom("r1", PlainCapacity) >>) >>

SeedFiles == {SeedFileA, SeedFileB, SeedFileTwice}

(***************************************************************************)
(* The store as a state machine.                                           *)
(***************************************************************************)
\* the page before PasswordGate is mounted
PageInit ==
    /\ hotels = <<>>
    /\ filter = defaultFilter
    /\ usageRecords = <<>>
    /\ results = <<>>
    /\ loading = TRUE
    /\ mounted = FALSE
    /\ pending = 0
    /\ selectedHotelId = Null
    /\ comparisonRooms = <<>>
    /\ showComparison = FALSE
    /\ viewMode = "list"
    /\ sharedDefault = defaultFilter
    /\ searchBar = SearchBarInit
    /\ db = DbInit

Init ==
    /\ PageInit
    /\ gate = GateOpen

Next ==
    \/ SearchPageMount
    \/ \E data \in Datasets : loadHotelsResolve(data, UsageRecordsOf(data))
    \/ loadHotelsReject
    \/ \E keyword \in Keywords : setKeyword(keyword)
    \/ \E region \in Regions : toggleRegion(region)
    \/ \E v \in Bounds : setAreaMin(v)
    \/ \E v \in Bounds : setAreaMax(v)
    \/ \E v \in Bounds : setCeilingMin(v)
    \/ \E v \in Bounds : setCeilingMax(v)
    \/ \E v \in Bounds : setCapacityMin(v)
    \/ \E v \in Bounds : setCapacityMax(v)
    \/ \E type \in CapacityTypes : setCapacityType(type)
    \/ \E v \in Flags : setHasDivisions(v)
    \/ \E v \in Flags : setHasUsageRecords(v)
    \/ resetFilters

Spec == Init /\ [][Next]_vars

(***************************************************************************)
(* Properties.                                                             *)
(***************************************************************************)
\* s is an order-preserving subsequence of t
RECURSIVE IsSubseq(_, _)
IsSubseq(s, t) ==
    IF s = <<>> THEN TRUE
    ELSE IF t = <<>> THEN FALSE
    ELSE IF Head(s) = Head(t) THEN IsSubseq(Tail(s), Tail(t))
    ELSE IsSubseq(s, Tail(t))

HasRoom(hotel) == Len(hotel.rooms) > 0

ResultHotels == [i \in 1..Len(results) |-> results[i].hotel]

\* the positions of the loaded hotels that appear in the results
InResults(hotel) == \E i \in 1..Len(results) : results[i].hotel = hotel

\* C1 Default no-op: under the all-default FilterState the results are
\* exactly the hotels that have at least one room, in their original order,
\* each with matchedRooms equal to the hotel's full rooms list.
C1_DefaultNoOp ==
    filter = defaultFilter =>
        LET withRooms == SelectSeq(hotels, HasRoom)
        IN  /\ Len(results) = Len(withRooms)
            /\ \A i \in 1..Len(results) :
                  /\ results[i].hotel = withRooms[i]
                  /\ results[i].matchedRooms = withRooms[i].rooms

C1_Witness ==
    /\ ~loading
    /\ filter = defaultFilter
    /\ Len(results) >= 2
    /\ Len(results) = Len(hotels) - 1
    /\ \E i \in 1..Len(hotels) : ~HasRoom(hotels[i])
    /\ \E i \in 1..Len(hotels) : hotels[i].usageCount = 0 /\ InResults(hotels[i])

\* C2 Every FilteredResult has a non-empty matchedRooms that is an
\* order-preserving subsequence of its hotel's rooms, and a hotel none of
\* whose rooms survives the room-level filters and the keyword narrowing is
\* not in the results.
C2_MatchedRoomsSubsequence ==
    /\ \A i \in 1..Len(results) :
          /\ Len(results[i].matchedRooms) > 0
          /\ IsSubseq(results[i].matchedRooms, results[i].hotel.rooms)
    /\ \A i \in 1..Len(hotels) :
          LET hotel == hotels[i]
              terms == Terms(filter.keyword)
              direct == EveryTerm(terms, hotelText(hotel))
              Survives(room) ==
                  /\ roomPassesFilters(room, filter)
                  /\ (direct \/ roomMatchesText(room, terms))
          IN  (\A j \in 1..Len(hotel.rooms) : ~Survives(hotel.rooms[j]))
                 => ~InResults(hotel)

\* a hotel with rooms passes the hotel-level steps and is dropped because
\* no room survives, next to a result with a proper subsequence of rooms
C2_Witness ==
    /\ \E i \in 1..Len(hotels) :
          /\ HasRoom(hotels[i])
          /\ hotelPasses(hotels[i], filter, Terms(filter.keyword))
          /\ ~InResults(hotels[i])
    /\ \E i \in 1..Len(results) :
          /\ Len(results[i].hotel.rooms) > Len(results[i].matchedRooms)
          /\ results[i].matchedRooms[1] # results[i].hotel.rooms[1]

\* C3 The hotels of the results are a subsequence of the input hotel
\* list: input order is preserved and no input hotel appears twice.
C3_HotelOrderPreserved ==
    /\ IsSubseq(ResultHotels, hotels)
    /\ \A i, j \in 1..Len(results) :
          i # j => results[i].hotel.id # results[j].hotel.id

\* a hotel that is left out lies between two hotels that are returned
C3_Witness ==
    /\ filter # defaultFilter
    /\ \E i, j, k \in 1..Len(hotels) :
          /\ i < j /\ j < k
          /\ HasRoom(hotels[j])
          /\ ~InResults(hotels[j])
          /\ \E m, n \in 1..Len(results) :
                m < n /\ results[m].hotel = hotels[i] /\ results[n].hotel = hotels[k]

(***************************************************************************)
(* The contract of the filter, stated on the current filter of the store.  *)
(***************************************************************************)
\* the words of a keyword: its maximal runs of code units that are not
\* white space
Words(keyword) ==
    { SubSeq(keyword, p[1], p[2]) :
        p \in { q \in (1..Len(keyword)) \X (1..Len(keyword)) :
                  /\ q[1] <= q[2]
                  /\ \A n \in q[1]..q[2] : ~IsSpace(keyword[n])
                  /\ (q[1] = 1 \/ IsSpace(keyword[q[1] - 1]))
                  /\ (q[2] = Len(keyword) \/ IsSpace(keyword[q[2] + 1])) } }

HasTerms == Words(filter.keyword) # {}

\* every word of the current keyword, normalized, is a substring of text
ContainsAllTerms(text) ==
    \A w \in Words(filter.keyword) : Includes(text, normalize(w))

\* the searchable text of a room and of a hotel
RoomSearchText(room) ==
    normalize(JoinTruthy(<<room.name, room.floor, room.equipment, room.features>>))

HotelSearchText(hotel) ==
    normalize(JoinTruthy(<<hotel.name, hotel.address,
                           IF hotel.practicalInfo = <<>> THEN NoText
                           ELSE hotel.practicalInfo[1].nearestStation>>))

HotelMatchesDirectly(hotel) == ContainsAllTerms(HotelSearchText(hotel))

RoomMatches(room) == ContainsAllTerms(RoomSearchText(room))

HotelLevelMatch(hotel) ==
    \/ HotelMatchesDirectly(hotel)
    \/ \E j \in 1..Len(hotel.rooms) : RoomMatches(hotel.rooms[j])

RegionOK(hotel) ==
    filter.regions = <<>> \/ \E i \in 1..Len(filter.regions) : filter.regions[i] = hotel.region

UsageOK(hotel) ==
    filter.hasUsageRecords = "true" => (hotel.usageCount # Absent /\ hotel.usageCount > 0)

\* value is present and within the bounds that are set
InRange(value, min, max) ==
    /\ value # Absent
    /\ (min = Absent \/ min <= value)
    /\ (max = Absent \/ value <= max)

AreaOK(room) ==
    (filter.areaMin # Absent \/ filter.areaMax # Absent)
        => InRange(room.areaSqm, filter.areaMin, filter.areaMax)

CeilingOK(room) ==
    (filter.ceilingMin # Absent \/ filter.ceilingMax # Absent)
        => InRange(room.ceilingHeightM, filter.ceilingMin, filter.ceilingMax)

\* the value of the dimension if present, else max if present, else 0
ResolvedCapacity(capacity, type) ==
    IF capacity[type] # Absent THEN capacity[type]
    ELSE IF capacity.max # Absent THEN capacity.max
    ELSE 0

CapacityOK(room) ==
    (filter.capacityMin # Absent \/ filter.capacityMax # Absent)
        => LET cap == ResolvedCapacity(room.capacity, filter.capacityType)
           IN  cap # 0 /\ InRange(cap, filter.capacityMin, filter.capacityMax)

NumericOK(room) == AreaOK(room) /\ CeilingOK(room) /\ CapacityOK(room)

DivisionsOK(room) ==
    /\ filter.hasDivisions = "true" => Len(room.divisions) > 0
    /\ filter.hasDivisions = "false" => Len(room.divisions) = 0

StageOK(room) == NumericOK(room) /\ DivisionsOK(room)

\* the entry of a loaded hotel in the results
EntryOf(hotel) == CHOOSE i \in 1..Len(results) : results[i].hotel = hotel

\* C4 Hotel-level keyword match: with at least one term, a hotel passes
\* the hotel-level keyword step iff its own normalized text contains every
\* term or one single room's normalized text contains every term; terms
\* split between the hotel's text and a room's text make no match. No
\* hotel that fails the step is in the results.
C4_HotelLevelKeyword ==
    HasTerms =>
        \A i \in 1..Len(hotels) :
            /\ hotelMatchesText(hotels[i], Terms(filter.keyword))
                  <=> HotelLevelMatch(hotels[i])
            /\ InResults(hotels[i]) => HotelLevelMatch(hotels[i])

\* two terms, one only in the hotel's text and the other only in a room's
\* text: the hotel is not matched
C4_Witness ==
    /\ Cardinality(Words(filter.keyword)) = 2
    /\ \E i \in 1..Len(hotels) :
          /\ ~InResults(hotels[i])
          /\ ~hotelMatchesText(hotels[i], Terms(filter.keyword))
          /\ \A w \in Words(filter.keyword) :
                \/ Includes(HotelSearchText(hotels[i]), normalize(w))
                \/ \E j \in 1..Len(hotels[i].rooms) :
                      Includes(RoomSearchText(hotels[i].rooms[j]), normalize(w))

\* C5 Room-level keyword narrowing: with terms present, a hotel whose own
\* text contains every term gets exactly its rooms that survive the
\* numeric/flag filters; any other hotel gets exactly the surviving rooms
\* whose own text contains every term.
C5_KeywordNarrowing ==
    HasTerms =>
        \A i \in 1..Len(hotels) :
            LET hotel == hotels[i]
                Kept(room) == StageOK(room)
                KeptAndMatching(room) == StageOK(room) /\ RoomMatches(room)
                expected == IF HotelMatchesDirectly(hotel)
                            THEN SelectSeq(hotel.rooms, Kept)
                            ELSE SelectSeq(hotel.rooms, KeptAndMatching)
            IN  IF RegionOK(hotel) /\ UsageOK(hotel) /\ expected # <<>>
                THEN /\ InResults(hotel)
                     /\ results[EntryOf(hotel)].matchedRooms = expected
                ELSE ~InResults(hotel)

\* one hotel matched by its own text keeps a room that lacks the term,
\* another matched only through a room keeps only the matching rooms, while
\* a room-level filter is set
C5_Witness ==
    /\ HasTerms
    /\ roomFiltersActive(filter)
    /\ \E i \in 1..Len(results) :
          /\ HotelMatchesDirectly(results[i].hotel)
          /\ \E j \in 1..Len(results[i].matchedRooms) :
                ~RoomMatches(results[i].matchedRooms[j])
    /\ \E i \in 1..Len(results) :
          /\ ~HotelMatchesDirectly(results[i].hotel)
          /\ Len(results[i].matchedRooms) < Len(results[i].hotel.rooms)
          /\ \A j \in 1..Len(results[i].hotel.rooms) : StageOK(results[i].hotel.rooms[j])

\* C6 Keyword AND semantics for rooms: a room satisfies the match
\* predicate iff every term of the keyword is a substring of the normalized
\* join of its name, floor, equipment and features; the hotel's name and
\* address never contribute, so a hotel not matched by its own text keeps
\* only rooms that contain every term themselves.
C6_RoomKeywordAnd ==
    /\ \A i \in 1..Len(hotels) : \A j \in 1..Len(hotels[i].rooms) :
          roomMatchesText(hotels[i].rooms[j], Terms(filter.keyword))
             <=> RoomMatches(hotels[i].rooms[j])
    /\ \A i \in 1..Len(results) :
          ~HotelMatchesDirectly(results[i].hotel) =>
              \A j \in 1..Len(results[i].matchedRooms) :
                  RoomMatches(results[i].matchedRooms[j])

\* two terms; a room holding one of them, in a hotel whose text holds the
\* other, is left out while a room holding both is kept
C6_Witness ==
    /\ Cardinality(Words(filter.keyword)) = 2
    /\ \E i \in 1..Len(results) :
          LET hotel == results[i].hotel
          IN  /\ ~HotelMatchesDirectly(hotel)
              /\ \E j \in 1..Len(hotel.rooms) :
                    /\ ~RoomMatches(hotel.rooms[j])
                    /\ \A k \in 1..Len(results[i].matchedRooms) :
                          results[i].matchedRooms[k] # hotel.rooms[j]
                    /\ \A w \in Words(filter.keyword) :
                          \/ Includes(RoomSearchText(hotel.rooms[j]), normalize(w))
                          \/ Includes(HotelSearchText(hotel), normalize(w))
                    /\ \E w \in Words(filter.keyword) :
                          Includes(RoomSearchText(hotel.rooms[j]), normalize(w))

IsMatched(i, room) ==
    \E k \in 1..Len(results[i].matchedRooms) : results[i].matchedRooms[k] = room

CapacityBoundSet == filter.capacityMin # Absent \/ filter.capacityMax # Absent

\* C7 Range exclusivity on missing data: while areaMin or areaMax is set no
\* room without an areaSqm is in any matchedRooms, and while ceilingMin or
\* ceilingMax is set no room without a ceilingHeightM is.
C7_MissingDataExcluded ==
    \A i \in 1..Len(results) : \A k \in 1..Len(results[i].matchedRooms) :
        LET room == results[i].matchedRooms[k]
        IN  /\ (filter.areaMin # Absent \/ filter.areaMax # Absent)
                  => room.areaSqm # Absent
            /\ (filter.ceilingMin # Absent \/ filter.ceilingMax # Absent)
                  => room.ceilingHeightM # Absent

\* only areaMax is set; a room without an area is left out of a hotel
\* whose other rooms are returned
C7_Witness ==
    /\ filter.areaMax # Absent
    /\ filter.areaMin = Absent
    /\ \E i \in 1..Len(results) : \E j \in 1..Len(results[i].hotel.rooms) :
          LET room == results[i].hotel.rooms[j]
          IN  /\ room.areaSqm = Absent
              /\ room.ceilingHeightM # Absent
              /\ ~IsMatched(i, room)

\* C8 Capacity resolution: for every room and every capacity dimension
\* the capacity the filter uses is the dimension's value if present, else
\* the generic max if present, else 0; with only capacity bounds set, the
\* rooms returned are exactly those whose capacity so resolved is non-zero
\* and within the bounds.
C8_CapacityResolution ==
    /\ \A i \in 1..Len(hotels) : \A j \in 1..Len(hotels[i].rooms) :
          \A type \in CapacityTypes :
              getMaxCapacity(hotels[i].rooms[j], type)
                 = ResolvedCapacity(hotels[i].rooms[j].capacity, type)
    /\ (/\ CapacityBoundSet
        /\ ~HasTerms
        /\ filter.hasDivisions = Null
        /\ filter.areaMin = Absent /\ filter.areaMax = Absent
        /\ filter.ceilingMin = Absent /\ filter.ceilingMax = Absent) =>
          \A i \in 1..Len(hotels) :
              LET hotel == hotels[i]
                  expected == SelectSeq(hotel.rooms, CapacityOK)
              IN  IF RegionOK(hotel) /\ UsageOK(hotel) /\ expected # <<>>
                  THEN /\ InResults(hotel)
                       /\ results[EntryOf(hotel)].matchedRooms = expected
                  ELSE ~InResults(hotel)

\* a dimension other than theater is selected, a bound is set, and a room
\* is returned on the strength of its generic max field
C8_Witness ==
    /\ filter.capacityType # "theater"
    /\ filter.capacityMin # Absent
    /\ \E i \in 1..Len(results) : \E k \in 1..Len(results[i].matchedRooms) :
          LET capacity == results[i].matchedRooms[k].capacity
          IN  /\ capacity[filter.capacityType] = Absent
              /\ capacity.max # Absent
              /\ capacity.theater # capacity.max

\* C9 While capacityMin or capacityMax is set, no room whose resolved
\* capacity is 0 is in any matchedRooms, also when only capacityMax is
\* set, and no room whose resolved capacity is below capacityMin is.
C9_ZeroCapacityExcluded ==
    CapacityBoundSet =>
        \A i \in 1..Len(results) : \A k \in 1..Len(results[i].matchedRooms) :
            LET cap == ResolvedCapacity(results[i].matchedRooms[k].capacity,
                                        filter.capacityType)
            IN  /\ cap # 0
                /\ filter.capacityMin # Absent => cap >= filter.capacityMin

\* only capacityMax is set and the one room of a loaded hotel has resolved
\* capacity 0: the hotel is not returned
C9_Witness ==
    /\ filter.capacityMax # Absent
    /\ filter.capacityMin = Absent
    /\ ActiveCount(filter) = 1
    /\ \E i \in 1..Len(hotels) :
          /\ Len(hotels[i].rooms) = 1
          /\ ResolvedCapacity(hotels[i].rooms[1].capacity, filter.capacityType) = 0
          /\ ~InResults(hotels[i])

\* C10 All range bounds are inclusive: a room passes the numeric stage
\* exactly when, for area, ceiling height and resolved capacity, the value
\* is present (non-zero for the capacity) and min <= value <= max for every
\* bound that is set; a value equal to a bound passes.
C10_InclusiveBounds ==
    /\ \A i \in 1..Len(hotels) : \A j \in 1..Len(hotels[i].rooms) :
          roomPassesFilters(hotels[i].rooms[j], filter)
             <=> StageOK(hotels[i].rooms[j])
    /\ \A i \in 1..Len(results) : \A k \in 1..Len(results[i].matchedRooms) :
          NumericOK(results[i].matchedRooms[k])
    /\ (~HasTerms /\ filter.hasDivisions = Null) =>
          \A i \in 1..Len(hotels) :
              LET hotel == hotels[i]
                  expected == SelectSeq(hotel.rooms, NumericOK)
              IN  IF RegionOK(hotel) /\ UsageOK(hotel) /\ expected # <<>>
                  THEN /\ InResults(hotel)
                       /\ results[EntryOf(hotel)].matchedRooms = expected
                  ELSE ~InResults(hotel)

\* a room whose area equals both areaMin and areaMax is returned, while
\* hotels whose rooms lie just outside the bounds are not
C10_Witness ==
    /\ filter.areaMin # Absent
    /\ filter.areaMin = filter.areaMax
    /\ \E i \in 1..Len(results) : \E k \in 1..Len(results[i].matchedRooms) :
          results[i].matchedRooms[k].areaSqm = filter.areaMin
    /\ \E i \in 1..Len(hotels) :
          /\ HasRoom(hotels[i])
          /\ \A j \in 1..Len(hotels[i].rooms) :
                hotels[i].rooms[j].areaSqm = filter.areaMin + 1
          /\ ~InResults(hotels[i])
    /\ \E i \in 1..Len(hotels) :
          /\ HasRoom(hotels[i])
          /\ \A j \in 1..Len(hotels[i].rooms) :
                hotels[i].rooms[j].areaSqm = filter.areaMin - 1
          /\ ~InResults(hotels[i])

(***************************************************************************)
(* Region, usage and division criteria.                                    *)
(***************************************************************************)
\* the rooms of a hotel that the contract keeps under the current filter
ExpectedRooms(hotel) ==
    LET Kept(room) == StageOK(room)
        KeptAndMatching(room) == StageOK(room) /\ RoomMatches(room)
    IN  IF HotelMatchesDirectly(hotel) THEN SelectSeq(hotel.rooms, Kept)
        ELSE SelectSeq(hotel.rooms, KeptAndMatching)

SelectedRegions == {filter.regions[i] : i \in 1..Len(filter.regions)}

\* C11 Region filter: when filter.regions is non-empty, every hotel in the
\* results has a region that is a member of it and a hotel whose region is
\* a member is in the results exactly when the other criteria admit it;
\* when filter.regions is empty the region of a hotel plays no part.
C11_RegionFilter ==
    /\ filter.regions # <<>> =>
          \A i \in 1..Len(results) : results[i].hotel.region \in SelectedRegions
    /\ \A i \in 1..Len(hotels) :
          LET hotel == hotels[i]
              others == UsageOK(hotel) /\ ExpectedRooms(hotel) # <<>>
          IN  IF filter.regions # <<>>
              THEN InResults(hotel) <=> (hotel.region \in SelectedRegions /\ others)
              ELSE InResults(hotel) <=> others

\* two regions are selected, in an order in which the second one is the
\* region of a returned hotel, and a hotel of the first is returned too
C11_WitnessBoth ==
    /\ Len(filter.regions) = 2
    /\ \E i \in 1..Len(results) : results[i].hotel.region = filter.regions[2]
    /\ \E i \in 1..Len(results) : results[i].hotel.region = filter.regions[1]

\* one region is selected and a hotel of another region, which the other
\* criteria admit, is left out
C11_Witness ==
    /\ Len(filter.regions) = 1
    /\ Len(results) > 0
    /\ \E i \in 1..Len(hotels) :
          /\ hotels[i].region \notin SelectedRegions
          /\ UsageOK(hotels[i])
          /\ ExpectedRooms(hotels[i]) # <<>>
          /\ ~InResults(hotels[i])

AllRegions == <<Tokyo, Osaka>>

\* the results of the current filter with region added to its regions
WithRegion(region) ==
    filterHotels(hotels, [filter EXCEPT !.regions = Append(@, region)])

IsEntryOf(entry, res) == \E i \in 1..Len(res) : res[i] = entry

\* C12 as stated: for any FilterState, adding a region to regions never
\* shrinks the result set, and the empty regions list gives the result of
\* no region filter (every region admitted).
C12_RegionMonotoneAlways ==
    /\ \A region \in Regions \ SelectedRegions :
          \A i \in 1..Len(results) : IsEntryOf(results[i], WithRegion(region))
    /\ filter.regions = <<>> =>
          results = filterHotels(hotels, [filter EXCEPT !.regions = AllRegions])

\* C12 amended: for any FilterState whose regions list is non-empty, adding
\* a region never shrinks the result set (every entry returned before is
\* still returned), and the empty regions list gives the result of every
\* region being admitted.
C12_RegionMonotone ==
    /\ filter.regions # <<>> =>
          \A region \in Regions \ SelectedRegions :
              \A i \in 1..Len(results) : IsEntryOf(results[i], WithRegion(region))
    /\ filter.regions = <<>> =>
          results = filterHotels(hotels, [filter EXCEPT !.regions = AllRegions])

\* one region is selected, a hotel is returned, and adding the other region
\* returns more hotels than before
C12_Witness ==
    /\ Len(filter.regions) = 1
    /\ Len(results) > 0
    /\ \E region \in Regions \ SelectedRegions :
          Len(WithRegion(region)) > Len(results)

\* C13 Usage-flag filter: when hasUsageRecords is true every hotel in the
\* results has a usage count that is present and strictly positive, and a
\* hotel with such a count is in the results exactly when the other
\* criteria admit it; when the flag is false or null it imposes no
\* constraint, so the results are the same for false as for null.
C13_UsageFlag ==
    /\ filter.hasUsageRecords = "true" =>
          \A i \in 1..Len(results) :
              /\ results[i].hotel.usageCount # Absent
              /\ results[i].hotel.usageCount > 0
    /\ \A i \in 1..Len(hotels) :
          LET hotel == hotels[i]
              others == RegionOK(hotel) /\ ExpectedRooms(hotel) # <<>>
          IN  IF filter.hasUsageRecords = "true"
              THEN InResults(hotel) <=>
                      (hotel.usageCount # Absent /\ hotel.usageCount > 0 /\ others)
              ELSE InResults(hotel) <=> others
    /\ filter.hasUsageRecords = "false" =>
          results = filterHotels(hotels, [filter EXCEPT !.hasUsageRecords = Null])
    /\ filter.hasUsageRecords = Null =>
          results = filterHotels(hotels, [filter EXCEPT !.hasUsageRecords = "false"])

\* the flag is true: a hotel with usage count 0 and a hotel without a usage
\* count, both admitted by the other criteria, are left out while a hotel
\* with a positive count is returned
C13_Witness ==
    /\ filter.hasUsageRecords = "true"
    /\ Len(results) > 0
    /\ \E i, j \in 1..Len(hotels) :
          /\ hotels[i].usageCount = 0
          /\ hotels[j].usageCount = Absent
          /\ RegionOK(hotels[i]) /\ ExpectedRooms(hotels[i]) # <<>>
          /\ RegionOK(hotels[j]) /\ ExpectedRooms(hotels[j]) # <<>>
          /\ ~InResults(hotels[i])
          /\ ~InResults(hotels[j])

\* the flag is false and hotels with and without usage are returned
C13_WitnessFalse ==
    /\ filter.hasUsageRecords = "false"
    /\ \E i, j \in 1..Len(results) :
          /\ results[i].hotel.usageCount = 1
          /\ results[j].hotel.usageCount = 0

\* C14 Division-presence flag: when hasDivisions is true every room in
\* every matchedRooms has at least one division, when it is false every
\* such room has none, and when it is null the number of divisions never
\* excludes a room: the matched rooms of a hotel are exactly the rooms that
\* the numeric bounds and the keyword keep and whose divisions agree with
\* the flag.
C14_DivisionFlag ==
    /\ \A i \in 1..Len(results) : \A k \in 1..Len(results[i].matchedRooms) :
          LET room == results[i].matchedRooms[k]
          IN  /\ filter.hasDivisions = "true" => Len(room.divisions) >= 1
              /\ filter.hasDivisions = "false" => Len(room.divisions) = 0
    /\ \A i \in 1..Len(hotels) :
          LET hotel == hotels[i]
              Wanted(room) ==
                  /\ NumericOK(room)
                  /\ (HotelMatchesDirectly(hotel) \/ RoomMatches(room))
                  /\ CASE filter.hasDivisions = "true" -> Len(room.divisions) >= 1
                       [] filter.hasDivisions = "false" -> Len(room.divisions) = 0
                       [] OTHER -> TRUE
              expected == SelectSeq(hotel.rooms, Wanted)
          IN  IF RegionOK(hotel) /\ UsageOK(hotel) /\ expected # <<>>
              THEN /\ InResults(hotel)
                   /\ results[EntryOf(hotel)].matchedRooms = expected
              ELSE ~InResults(hotel)

\* the flag is true: a hotel keeps its room with divisions and loses its
\* room without, and a hotel none of whose rooms has a division is left out
C14_Witness ==
    /\ filter.hasDivisions = "true"
    /\ \E i \in 1..Len(results) :
          /\ Len(results[i].matchedRooms) < Len(results[i].hotel.rooms)
          /\ \E j \in 1..Len(results[i].hotel.rooms) :
                /\ Len(results[i].hotel.rooms[j].divisions) = 0
                /\ NumericOK(results[i].hotel.rooms[j])
    /\ \E i \in 1..Len(hotels) :
          /\ HasRoom(hotels[i])
          /\ RegionOK(hotels[i]) /\ UsageOK(hotels[i])
          /\ ~InResults(hotels[i])

\* the flag is null while a numeric bound is set, and a room with divisions
\* and a room without are both returned
C14_WitnessNull ==
    /\ filter.hasDivisions = Null
    /\ roomFiltersActive(filter)
    /\ \E i, j \in 1..Len(results) :
          /\ \E k \in 1..Len(results[i].matchedRooms) :
                Len(results[i].matchedRooms[k].divisions) > 0
          /\ \E k \in 1..Len(results[j].matchedRooms) :
                Len(results[j].matchedRooms[k].divisions) = 0

(***************************************************************************)
(* Script folding: keywords and stored texts in every script variant.      *)
(***************************************************************************)
\* the code units of the texts below: a A ａ Ａ, b B ｂ Ｂ, 1 １, か カ, c
\* and the space
FoldAlphabet ==
    {97, 65, 65345, 65313, 98, 66, 65346, 65314, 49, 65297, 12363, 12459, 99, 32}

\* the three folds, each on its own: full width to standard width for the
\* Latin letters and digits, katakana to hiragana, lower to upper case
NarrowOf(c) ==
    IF c \in (65313..65338) \cup (65345..65370) \cup (65296..65305)
    THEN c - 65248 ELSE c

HiraganaOf(c) == IF c \in 12449..12534 THEN c - 96 ELSE c

UpperOf(c) == IF c \in 97..122 THEN c - 32 ELSE c

FoldKey(c) == UpperOf(HiraganaOf(NarrowOf(c)))

\* the code units that differ from c by the folds only
FoldClass(c) == {d \in FoldAlphabet : FoldKey(d) = FoldKey(c)}

\* the strings that differ from str by the folds only
RECURSIVE Variants(_)
Variants(str) ==
    IF str = <<>> THEN {<<>>}
    ELSE {<<c>> \o rest : c \in FoldClass(Head(str)), rest \in Variants(Tail(str))}

Folded(str) == [i \in 1..Len(str) |-> FoldKey(str[i])]

\* "a1", "か", "ba"
FoldBases == {<<97, 49>>, <<12363>>, <<98, 97>>}

FoldTexts == UNION {Variants(base) : base \in FoldBases}

\* a hotel that carries text in its name and a hotel that carries it in
\* the name of its second room
FoldDataset(text) ==
    WithIds(<< Hotel("h", text, <<99>>, NoInfo, Tokyo, 1,
                     WithIds(<< TextRoom(<<99>>, NoText, NoText, NoText, 1, <<>>) >>,
                             RoomIds)),
               Hotel("h", <<99>>, <<99>>, Info(NoText), Tokyo, 1,
                     WithIds(<< TextRoom(<<99>>, NoText, NoText, NoText, 1, <<>>),
                                TextRoom(text, NoText, NoText, NoText, 1, <<>>) >>,
                             RoomIds)) >>, HotelIds)

FoldDatasets == {FoldDataset(text) : text \in FoldTexts}

\* "", "c" and the variants of "a", "1", "か", "a 1"
FoldKeywords ==
    {<<>>, <<99>>} \cup Variants(<<97>>) \cup Variants(<<49>>) \cup Variants(<<12363>>)
        \cup Variants(<<97, 32, 49>>)

FoldNext ==
    \/ SearchPageMount
    \/ \E data \in FoldDatasets : loadHotelsResolve(data, UsageRecordsOf(data))
    \/ \E keyword \in FoldKeywords : setKeyword(keyword)

FoldSpec == Init /\ [][FoldNext]_vars

\* the ids of the hotels and of their matched rooms
Shape(res) ==
    [i \in 1..Len(res) |->
        <<res[i].hotel.id,
          [k \in 1..Len(res[i].matchedRooms) |-> res[i].matchedRooms[k].id]>>]

FoldedMatch(text) ==
    \A w \in Words(filter.keyword) : Includes(Folded(text), Folded(w))

IsText(s) == \A i \in 1..Len(s) : s[i] >= 0

\* C17 Totality: for every hotel list of the data model (the empty list,
\* hotels without rooms or without PracticalInfo, rooms with any optional
\* field absent) and every FilterState (the all-default one too) the filter
\* has no error outcome and returns a valid, possibly empty, result
\* sequence: every text it searches is a string and every capacity it
\* compares is a number, every entry is a loaded hotel with rooms of that
\* hotel, and an absent optional field excludes the room or hotel from a
\* criterion set on that field.
C17_Totality ==
    /\ \A i \in 1..Len(hotels) :
          /\ IsText(hotelText(hotels[i]))
          /\ \A j \in 1..Len(hotels[i].rooms) :
                /\ IsText(roomText(hotels[i].rooms[j]))
                /\ \A type \in CapacityTypes :
                      getMaxCapacity(hotels[i].rooms[j], type) \in Nat
    /\ Len(results) <= Len(hotels)
    /\ \A i \in 1..Len(results) :
          /\ \E j \in 1..Len(hotels) : hotels[j] = results[i].hotel
          /\ IsSubseq(results[i].matchedRooms, results[i].hotel.rooms)
          /\ filter.hasUsageRecords = "true" => results[i].hotel.usageCount # Absent
          /\ \A k \in 1..Len(results[i].matchedRooms) :
                LET room == results[i].matchedRooms[k]
                IN  /\ (filter.areaMin # Absent \/ filter.areaMax # Absent)
                          => room.areaSqm # Absent
                    /\ (filter.ceilingMin # Absent \/ filter.ceilingMax # Absent)
                          => room.ceilingHeightM # Absent
                    /\ CapacityBoundSet =>
                          \/ room.capacity[filter.capacityType] # Absent
                          \/ room.capacity.max # Absent
    /\ (hotels = <<>> \/ \A i \in 1..Len(hotels) : ~HasRoom(hotels[i])) => results = <<>>

\* a keyword and an area bound are set on a list that holds a hotel without
\* PracticalInfo and without rooms and a room without an area and without
\* floor, equipment and features; that room is left out of a returned hotel
C17_Witness ==
    /\ HasTerms
    /\ filter.areaMax # Absent
    /\ \E i \in 1..Len(hotels) : hotels[i].practicalInfo = NoInfo
    /\ \E i \in 1..Len(results) : \E j \in 1..Len(results[i].hotel.rooms) :
          LET room == results[i].hotel.rooms[j]
          IN  /\ room.areaSqm = Absent
              /\ room.floor = NoText /\ room.equipment = NoText /\ room.features = NoText
              /\ ~IsMatched(i, room)

\* the load delivered the empty list and the filter is not the default
C17_WitnessEmpty ==
    /\ ~loading
    /\ hotels = <<>>
    /\ results = <<>>
    /\ filter # defaultFilter

(***************************************************************************)
(* The store under every interleaving of its operations: loadHotels may be *)
(* called again while earlier calls are in flight.                         *)
(***************************************************************************)
StoreDatasets == {<<>>, FlagDataset, CapacityDataset}

\* "" and "a"
StoreKeywords == {<<>>, <<97>>}

StoreBounds == {Absent, 2}

StoreNext ==
    \/ SearchPageEffect
    \/ \E data \in StoreDatasets : loadHotelsResolve(data, UsageRecordsOf(data))
    \/ loadHotelsReject
    \/ \E keyword \in StoreKeywords : setKeyword(keyword)
    \/ \E region \in Regions : toggleRegion(region)
    \/ \E v \in StoreBounds : setAreaMin(v)
    \/ \E v \in StoreBounds : setAreaMax(v)
    \/ \E v \in StoreBounds : setCeilingMin(v)
    \/ \E v \in StoreBounds : setCeilingMax(v)
    \/ \E v \in StoreBounds : setCapacityMin(v)
    \/ \E v \in StoreBounds : setCapacityMax(v)
    \/ \E type \in CapacityTypes : setCapacityType(type)
    \/ \E v \in Flags : setHasDivisions(v)
    \/ \E v \in Flags : setHasUsageRecords(v)
    \/ resetFilters

StoreSpec == Init /\ [][StoreNext]_vars

\* C18 Store consistency: in every reachable state of the store, after any
\* interleaving of the setters, resetFilters and completions of loadHotels
\* (filter changes while a load is in flight and overlapping loads too),
\* results equals filterHotels(hotels, filter) for the current hotels and
\* filter.
C18_StoreConsistency == results = filterHotels(hotels, filter)

\* a load completed while another one was in flight, the filter was changed
\* and leaves out some of the loaded hotels that have rooms
C18_Witness ==
    /\ pending > 0
    /\ ~loading
    /\ filter # defaultFilter
    /\ Len(results) > 0
    /\ Len(results) < Len(SelectSeq(hotels, HasRoom))

NothingLoaded == hotels = <<>> /\ usageRecords = <<>> /\ results = <<>>

\* hotels, usageRecords and results are those of one delivered dataset
SetTogether ==
    \E data \in StoreDatasets :
        /\ hotels = data
        /\ usageRecords = UsageRecordsOf(data)
        /\ results = applyFilter(data, filter)

\* C19 No partial population: in every reachable state hotels,
\* usageRecords and results are either all still the initial empty values
\* or were set together by one completed loadHotels call, and a step in
\* which a call settles either sets the three together and clears loading
\* or, when a fetch failed, leaves the three exactly as they were.
C19_NoPartialPopulation ==
    /\ [](NothingLoaded \/ SetTogether)
    /\ [][pending' < pending =>
             \/ /\ ~loading'
                /\ \E data \in StoreDatasets :
                      /\ hotels' = data
                      /\ usageRecords' = UsageRecordsOf(data)
                      /\ results' = applyFilter(data, filter')
             \/ UNCHANGED <<hotels, usageRecords, results>>]_vars

\* a load completed, a later load failed, and the data of the first is
\* still in place
C19_Witness ==
    /\ pending = 0
    /\ loading
    /\ hotels # <<>>
    /\ usageRecords # <<>>
    /\ Len(usageRecords) < Len(hotels)

\* C20 Load outcome is surfaced: once the fetches of every loadHotels call
\* have settled, the store no longer shows loading (the store has no state
\* for a failure, so loading = FALSE is the one outcome the page can see).
C20_LoadOutcomeSurfaced == (mounted /\ pending = 0) => ~loading

(***************************************************************************)
(* The filter panel: every numeric bound of the store is set through a     *)
(* NumberInput.                                                            *)
(***************************************************************************)
PanelDatasets == {<<>>, NumericDataset, CapacityDataset}

PanelNext ==
    \/ SearchPageMount
    \/ \E data \in PanelDatasets : loadHotelsResolve(data, UsageRecordsOf(data))
    \/ \E value \in Entries : setAreaMin(NumberInput(value))
    \/ \E value \in Entries : setAreaMax(NumberInput(value))
    \/ \E value \in Entries : setCeilingMin(NumberInput(value))
    \/ \E value \in Entries : setCeilingMax(NumberInput(value))
    \/ \E value \in Entries : setCapacityMin(NumberInput(value))
    \/ \E value \in Entries : setCapacityMax(NumberInput(value))
    \/ \E type \in CapacityTypes : setCapacityType(type)
    \/ \E v \in Flags : setHasDivisions(v)
    \/ resetFilters

PanelSpec == Init /\ [][PanelNext]_vars

NumericFields ==
    {"areaMin", "areaMax", "ceilingMin", "ceilingMax",
     "capacityMin", "capacityMax"}

\* C21: whatever is typed into the numeric inputs of the filter panel, and
\* whatever else the store does, each of the six numeric bounds of the
\* filter is unset or a number strictly greater than 0.
C21_PositiveOrUnset ==
    \A k \in NumericFields : filter[k] = Absent \/ filter[k] > 0

\* C21 (witness): two bounds typed into the panel are in force on a loaded
\* catalogue, the others are unset.
C21_Witness ==
    /\ filter.areaMin = 2
    /\ filter.capacityMax = 1
    /\ filter.areaMax = Absent
    /\ hotels # <<>>

(***************************************************************************)
(* The whole store: the filter setters next to the selection, comparison   *)
(* and view actions.                                                       *)
(***************************************************************************)
\* the room offered for comparison: the first room of the first hotel
FrameRooms ==
    IF hotels = <<>> THEN {} ELSE {<<hotels[1], hotels[1].rooms[1]>>}

\* the catalogue of the frame check: a hotel with rooms and one without
FrameDataset == SubSeq(FlagDataset, 1, 2)

FrameNext ==
    \/ SearchPageMount
    \/ loadHotelsResolve(FrameDataset, UsageRecordsOf(FrameDataset))
    \/ \E keyword \in StoreKeywords : setKeyword(keyword)
    \/ \E region \in Regions : toggleRegion(region)
    \/ \E v \in StoreBounds : setAreaMin(v)
    \/ \E v \in StoreBounds : setAreaMax(v)
    \/ \E v \in StoreBounds : setCeilingMin(v)
    \/ \E v \in StoreBounds : setCeilingMax(v)
    \/ \E v \in StoreBounds : setCapacityMin(v)
    \/ \E v \in StoreBounds : setCapacityMax(v)
    \/ \E type \in CapacityTypes : setCapacityType(type)
    \/ \E v \in Flags : setHasDivisions(v)
    \/ \E v \in Flags : setHasUsageRecords(v)
    \/ resetFilters
    \/ \E id \in {Null, "h1"} : selectHotel(id)
    \/ \E pair \in FrameRooms : toggleComparisonRoom(pair[1], pair[2])
    \/ clearComparison
    \/ \E show \in BOOLEAN : setShowComparison(show)
    \/ \E mode \in ViewModes : setViewMode(mode)

FrameSpec == Init /\ [][FrameNext]_vars

\* the fields in which two filters differ
Changed(f, g) == {k \in DOMAIN f : f[k] # g[k]}

\* a step that changes, of the filter, at most the named field, and leaves
\* the catalogue, the loading flag, the selection, the tray and the view
\* alone
OnlyField(k) ==
    /\ Changed(filter, filter') \subseteq {k}
    /\ UNCHANGED <<hotels, usageRecords, loading>>
    /\ UNCHANGED <<comparisonRooms, showComparison, selectedHotelId, viewMode>>

\* C22: each filter setter yields a filter that differs from the previous
\* one in at most the setter's own field and leaves hotels, usageRecords,
\* loading, comparisonRooms, showComparison, selectedHotelId and viewMode
\* unchanged; no step alters the shared defaultFilter, and resetFilters
\* restores the initial all-empty filter.
C22_WholesaleFrame ==
    [][ /\ (\E keyword \in StoreKeywords : setKeyword(keyword)) => OnlyField("keyword")
        /\ (\E region \in Regions : toggleRegion(region)) => OnlyField("regions")
        /\ (\E v \in StoreBounds : setAreaMin(v)) => OnlyField("areaMin")
        /\ (\E v \in StoreBounds : setAreaMax(v)) => OnlyField("areaMax")
        /\ (\E v \in StoreBounds : setCeilingMin(v)) => OnlyField("ceilingMin")
        /\ (\E v \in StoreBounds : setCeilingMax(v)) => OnlyField("ceilingMax")
        /\ (\E v \in StoreBounds : setCapacityMin(v)) => OnlyField("capacityMin")
        /\ (\E v \in StoreBounds : setCapacityMax(v)) => OnlyField("capacityMax")
        /\ (\E type \in CapacityTypes : setCapacityType(type)) => OnlyField("capacityType")
        /\ (\E v \in Flags : setHasDivisions(v)) => OnlyField("hasDivisions")
        /\ (\E v \in Flags : setHasUsageRecords(v)) => OnlyField("hasUsageRecords")
        /\ sharedDefault' = defaultFilter
        /\ resetFilters => filter' = defaultFilter ]_vars

\* C22 (witness): two setters have acted while a hotel is selected, a room
\* is in the tray, the comparison is shown and the map view is on.
C22_Witness ==
    /\ filter.keyword # <<>>
    /\ filter.regions # <<>>
    /\ selectedHotelId # Null
    /\ comparisonRooms # <<>>
    /\ showComparison
    /\ viewMode = "map"
    /\ ~loading

(***************************************************************************)
(* The search bar next to the store.                                       *)
(***************************************************************************)
BarNext ==
    \/ SearchPageMount
    \/ loadHotelsResolve(FlagDataset, UsageRecordsOf(FlagDataset))
    \/ SearchBarMount
    \/ SearchBarUnmount
    \/ \E value \in BarTexts : handleChange(value)
    \/ \E t \in TimerValues : timerFires(t)
    \/ clearKeyword
    \/ resetFilters
    \/ \E v \in Flags : setHasUsageRecords(v)

BarSpec == Init /\ [][BarNext]_vars

\* C23: whenever the search bar shows its input and has no debounce timer
\* pending, the keyword of the store's filter is the text shown in the
\* input (so a keystroke made just before the clear button or resetFilters
\* leaves nothing to be applied afterwards).
C23_InputAgreesWithStore ==
    (searchBar.mounted /\ searchBar.timers = {}) => filter.keyword = searchBar.value

\* C24: the search bar has at most one timer pending; a change of the input
\* cancels the pending timer and leaves exactly one, which carries the text
\* just typed; a timer that fires calls setKeyword with its text and leaves
\* none pending, so a burst of changes ends in one call with the last text;
\* while the search bar is unmounted no timer is pending.
C24_Debounce ==
    [][ /\ Cardinality(searchBar'.timers) <= 1
        /\ ~searchBar'.mounted => searchBar'.timers = {}
        /\ \A value \in BarTexts :
              handleChange(value) =>
                 searchBar'.timers = {[id |-> searchBar'.timerRef, value |-> value]}
        /\ \A t \in TimerValues :
              timerFires(t) =>
                 /\ filter'.keyword = t.value
                 /\ searchBar'.timers = {} ]_vars

\* C24 (witness): the store still holds "a" from the timer that fired, the
\* input shows "", typed after "ab", and the one pending timer carries "".
C24_Witness ==
    /\ searchBar.mounted
    /\ filter.keyword = <<97>>
    /\ searchBar.value = <<>>
    /\ searchBar.timers = {[id |-> searchBar.timerRef, value |-> <<>>]}

(***************************************************************************)
(* The comparison tray.                                                    *)
(***************************************************************************)
\* a hotel of the tray catalogue: only the ids of the hotel and of its
\* rooms vary
TrayHotel(id, roomIds) ==
    Hotel(id, <<97>>, <<99>>, NoInfo, Tokyo, 1,
          [i \in 1..Len(roomIds) |->
              Room(roomIds[i], <<98>>, NoText, NoText, NoText, 2, 2, PlainCapacity, <<>>)])

\* ids are free text: the hotels "a" and "a:b" have the rooms "b:c", "r1",
\* "r2", "r3" and "c", "r4", "r5", "r6"
TrayDataset ==
    << TrayHotel("a", <<"b:c", "r1", "r2", "r3">>),
       TrayHotel("a:b", <<"c", "r4", "r5", "r6">>) >>

\* the (hotel, room) pairs of the catalogue: a room card of each can be
\* ticked
TrayPairs(hs) ==
    UNION {{<<hs[i], hs[i].rooms[j]>> : j \in 1..Len(hs[i].rooms)} : i \in 1..Len(hs)}

TrayNext ==
    \/ SearchPageMount
    \/ loadHotelsResolve(TrayDataset, UsageRecordsOf(TrayDataset))
    \/ \E pair \in TrayPairs(hotels) : toggleComparisonRoom(pair[1], pair[2])
    \/ clearComparison
    \/ \E show \in BOOLEAN : setShowComparison(show)

TraySpec == Init /\ [][TrayNext]_vars

\* the entry c is that of the pair (hotel, room)
SamePair(c, hotel, room) == c.hotel.id = hotel.id /\ c.room.id = room.id

\* the pair (hotel, room) is held in the tray
Held(tray, hotel, room) == \E i \in 1..Len(tray) : SamePair(tray[i], hotel, room)

\* the tray without the entries of the pair (hotel, room), in order
Without(tray, hotel, room) ==
    LET Other(c) == ~SamePair(c, hotel, room) IN SelectSeq(tray, Other)

\* the tray holds at most 6 entries, no two of the same pair
TrayBound(tray) ==
    /\ Len(tray) <= 6
    /\ \A i, j \in 1..Len(tray) :
          SamePair(tray[i], tray[j].hotel, tray[j].room) => i = j

\* C25: the tray holds at most 6 entries and no two of the same
\* (hotel.id, room.id); toggling a pair that is held removes exactly its
\* entry and keeps the order of the others, toggling a pair that is not
\* held appends it when fewer than 6 are held and changes nothing when 6
\* are held.
C25_TrayBound ==
    [][ /\ TrayBound(comparisonRooms')
        /\ \A pair \in TrayPairs(hotels) :
              toggleComparisonRoom(pair[1], pair[2]) =>
                 comparisonRooms' =
                    IF Held(comparisonRooms, pair[1], pair[2])
                    THEN Without(comparisonRooms, pair[1], pair[2])
                    ELSE IF Len(comparisonRooms) < 6
                         THEN Append(comparisonRooms, [hotel |-> pair[1], room |-> pair[2]])
                         ELSE comparisonRooms ]_vars

\* the tray bound alone: at most 6 entries, no pair twice
TrayBounded == TrayBound(comparisonRooms)

\* six pairs are held
TrayFull == Len(comparisonRooms) = 6

(***************************************************************************)
(* Keywords that grow by a term.                                           *)
(***************************************************************************)
\* the terms appended to the keyword: "a", "b", "c", "Ｂ"
ExtraTerms == {<<97>>, <<98>>, <<99>>, <<65314>>}

TermNext ==
    \/ SearchPageMount
    \/ \E data \in TextDatasets : loadHotelsResolve(data, UsageRecordsOf(data))
    \/ \E keyword \in Keywords : setKeyword(keyword)
    \/ \E v \in Bounds : setAreaMin(v)
    \/ \E v \in Flags : setHasDivisions(v)

TermSpec == Init /\ [][TermNext]_vars

\* the current filter with term appended to its keyword
WithTerm(term) == [filter EXCEPT !.keyword = @ \o <<32>> \o term]

\* every entry of narrower is the hotel of an entry of wider, with no room
\* that the entry of wider lacks
Within(narrower, wider) ==
    \A i \in 1..Len(narrower) :
       \E j \in 1..Len(wider) :
          /\ wider[j].hotel = narrower[i].hotel
          /\ IsSubseq(narrower[i].matchedRooms, wider[j].matchedRooms)

\* C26: for the hotels loaded and the filter in force, appending a further
\* term to the keyword adds no hotel to the result and no room to the
\* matchedRooms of any hotel.
C26_KeywordMonotone ==
    \A term \in ExtraTerms : Within(filterHotels(hotels, WithTerm(term)), results)

\* C26 (witness): a hotel matches the keyword by its own text, so that its
\* rooms are not narrowed, and with a term appended it matches only through
\* a room: it stays in the result with fewer rooms.
C26_Witness ==
    /\ HasTerms
    /\ \E term \in ExtraTerms :
       \E j \in 1..Len(results) :
          LET narrower == filterHotels(hotels, WithTerm(term))
              hotel == results[j].hotel
          IN  /\ HotelMatchesDirectly(hotel)
              /\ ~EveryTerm(Terms(WithTerm(term).keyword), hotelText(hotel))
              /\ \E i \in 1..Len(narrower) :
                    /\ narrower[i].hotel = hotel
                    /\ Len(narrower[i].matchedRooms) < Len(results[j].matchedRooms)

(***************************************************************************)
(* The database path: seed() fills the tables, the store loads from them.  *)
(***************************************************************************)
DataNext ==
    \/ SearchPageMount
    \/ loadHotelsFromDatabase
    \/ loadHotelsReject
    \/ \E v \in StoreBounds : setCapacityMin(v)
    \/ \E type \in {"theater", "school"} : setCapacityType(type)
    \/ \E v \in Flags : setHasUsageRecords(v)
    \/ \E venues \in SeedFiles : seedStart(venues, UsageJson(venues))
    \/ seedReadFails
    \/ seedConnect
    \/ seedConnectFails
    \/ seedQuery
    \/ seedQueryFails
    \/ seedRollback
    \/ seedFinally

DataSpec == Init /\ [][DataNext]_vars

\* the ids of the hotels of a result, and of the matched rooms of a hotel
ChosenHotels(r) == {r[i].hotel.id : i \in 1..Len(r)}
ChosenRooms(r, id) ==
    UNION {{r[i].matchedRooms[j].id : j \in 1..Len(r[i].matchedRooms)} :
             i \in {k \in 1..Len(r) : r[k].hotel.id = id}}

\* two results choose the same hotels and, of each, the same rooms
SameChoice(r, q) ==
    /\ ChosenHotels(r) = ChosenHotels(q)
    /\ \A id \in ChosenHotels(r) : ChosenRooms(r, id) = ChosenRooms(q, id)

\* C27: when the store holds the hotels that loadHotels builds of the rows
\* seed() wrote for a venues.json, the result is, for the filter in force,
\* that of the same venues.json loaded directly: the same hotels and the
\* same matched rooms of each.
C27_DataPathEquivalence ==
    \A venues \in SeedFiles :
       hotels = databaseHotels(seeded(venues, UsageJson(venues)))
          => SameChoice(results, filterHotels(venues, filter))

\* every step of seed() leaves the committed rows alone or replaces them
\* by the rows of the files being seeded, whole
SeedAllOrNothing ==
    [][ \/ db'.durable = db.durable
        \/ db'.durable = seeded(db.venues, db.usage) ]_vars

\* a seed() that broke a constraint after its DELETEs and some INSERTs has
\* settled, and the rows committed before are in place
SeedRolledBack ==
    /\ db.pc = "done"
    /\ db.outcome = "rejected"
    /\ db.venues = SeedFileTwice
    /\ db.client = "released"
    /\ db.durable = seeded(SeedFileA, UsageJson(SeedFileA))

\* C28: a step of seed() leaves the committed rows of venues, rooms and
\* usage_records alone or replaces them, whole, by the rows of the files
\* (a failed DELETE or INSERT rolls back to the prior contents, never a mix
\* or a partial insert), and whenever seed() has settled the client is
\* released and the pool ended.
C28_SeedAtomicity ==
    [][ /\ \/ db'.durable = db.durable
           \/ db'.durable = seeded(db.venues, db.usage)
        /\ db'.pc = "done" => (db'.client = "released" /\ db'.pool = "ended") ]_vars

(***************************************************************************)
(* The password gate in front of the search page.                          *)
(***************************************************************************)
GateInit ==
    /\ PageInit
    /\ \E stored \in StoredValues : gate = PasswordGate(stored)

GateNext ==
    \/ \E text \in Passwords : setPassword(text)
    \/ handleSubmit
    \/ \E text \in Passwords : handleSubmitSettles(text)
    \/ errorTimerFires
    \/ SearchPageMount
    \/ loadHotelsResolve(FlagDataset, UsageRecordsOf(FlagDataset))
    \/ loadHotelsReject
    \/ \E keyword \in StoreKeywords : setKeyword(keyword)
    \/ \E region \in Regions : toggleRegion(region)

GateSpec == GateInit /\ [][GateNext]_vars

\* C29: the search page is mounted, and loadHotels called, only while
\* authed is true; authed is true only with the expected hash in the
\* session storage, where only the page opening with it or a submitted
\* password whose SHA-256 is the expected hash puts it; a wrong password
\* changes neither authed nor the session storage; and authed, once true,
\* stays true.
C29_PasswordGate ==
    [][ /\ (mounted' \/ pending' > 0) => gate'.authed
        /\ gate.authed => gate.storage = HASH
        /\ gate'.authed => gate'.storage = HASH
        /\ (gate'.authed /\ ~gate.authed) =>
              \E text \in gate.hashing :
                 sha256(text) = HASH /\ handleSubmitSettles(text)
        /\ gate'.storage # gate.storage =>
              \E text \in gate.hashing :
                 sha256(text) = HASH /\ handleSubmitSettles(text)
        /\ \A text \in Passwords :
              (sha256(text) # HASH /\ handleSubmitSettles(text)) =>
                 (gate'.authed = gate.authed /\ gate'.storage = gate.storage)
        /\ gate.authed => gate'.authed ]_vars

\* C29 (witness): a wrong password was refused and its error is still
\* shown, the right one was accepted, and the search page has loaded.
C29_Witness ==
    /\ gate.authed
    /\ gate.error
    /\ gate.storage = HASH
    /\ mounted
    /\ ~loading

(***************************************************************************)
(* The consumers of the result.                                            *)
(***************************************************************************)
\* C30: in every state of the store the room KPI of the analytics
\* dashboard is the room total of the search bar, the sum of the lengths
\* of matchedRooms over results: rooms the filter excluded are not counted.
C30_ConsumersAgree ==
    kpi(results, usageRecords).rooms = roomCount(results)

====
